---- MODULE Spec2Model ----
(***************************************************************************)
(* Document scanner: the image pipeline of src/lib/imageProcessing.ts      *)
(* (Canny edges -> contours -> quadrilateral -> perspective warp).         *)
(*                                                                         *)
(* Number representation.  The TypeScript code computes in IEEE doubles.   *)
(* Here every quantity is held exactly:                                    *)
(*   - pixel buffers are functions from the row-major index 0..n-1;        *)
(*   - a Sobel magnitude is held as its square gx^2+gy^2 and a direction   *)
(*     as the pair (gy, gx): the code only orders magnitudes, compares     *)
(*     them with a multiple of the maximum, and buckets the angle;         *)
(*   - contour, hull and polygon points are integer pixel positions;       *)
(*   - returned corners are integers in units of 1/SubPx pixel, the        *)
(*     denominator of margin = min(w,h) * 0.05;                            *)
(*   - a score is a rational <<num, den>> with den = 2*width*height;       *)
(*   - lengths inside approximatePolygon are fixed point, 1/FixQ pixel.    *)
(***************************************************************************)
EXTENDS Integers, Sequences, FiniteSets, TLC

\* ------------------------------------------------------------- arithmetic

Abs(n) == IF n < 0 THEN -n ELSE n

Min2(a, b) == IF a < b THEN a ELSE b

Max2(a, b) == IF a > b THEN a ELSE b

\* Math.round of the non-negative rational n/d: floor(n/d + 0.5)
MathRound(n, d) == (2 * n + d) \div (2 * d)

\* Store of the non-negative rational n/d into a Uint8ClampedArray element:
\* round to nearest, ties to even, clamped to 0..255
ToUint8Clamp(n, d) ==
  LET f == n \div d
      r == n - f * d
      v == IF 2 * r < d THEN f
           ELSE IF 2 * r > d THEN f + 1
           ELSE IF f % 2 = 0 THEN f ELSE f + 1
  IN IF v > 255 THEN 255 ELSE IF v < 0 THEN 0 ELSE v

\* floor(sqrt(n)) for n >= 0, by bisection on lo..hi with lo^2 <= n < (hi+1)^2
RECURSIVE ISqrtIn(_, _, _)
ISqrtIn(n, lo, hi) ==
  IF lo >= hi THEN lo
  ELSE LET mid == (lo + hi + 1) \div 2
       IN IF mid * mid <= n THEN ISqrtIn(n, mid, hi) ELSE ISqrtIn(n, lo, mid - 1)

ISqrt(n) == ISqrtIn(n, 0, 46340)

\* A loop "for (i = lo; i <= hi; i++) acc = step(acc, i)".  The range is split in
\* halves so that the evaluation depth is logarithmic; the test left = left makes
\* the first half's value be computed before the second half starts.
Fold(step(_, _), acc0, lo, hi) ==
  LET RECURSIVE Run(_, _, _)
      Run(acc, a, b) ==
        IF a > b THEN acc
        ELSE IF a = b THEN step(acc, a)
        ELSE LET mid == (a + b) \div 2
                 left == Run(acc, a, mid)
             IN IF left = left THEN Run(left, mid + 1, b) ELSE acc
  IN Run(acc0, lo, hi)

\* Stable sort of the sequence s by the strict order Less, as Array.prototype.sort
\* (stable since ES2019) leaves it: e goes after every element not greater than it.
StableSort(s, Less(_, _)) ==
  LET Insert(sorted, i) ==
        LET k == Cardinality({j \in 1..Len(sorted) : ~Less(s[i], sorted[j])})
        IN SubSeq(sorted, 1, k) \o <<s[i]>> \o SubSeq(sorted, k + 1, Len(sorted))
  IN Fold(Insert, <<>>, 1, Len(s))

\* ---------------------------------------------------------- stages 1 to 5

Interior(i, width, height) ==
  LET x == i % width
      y == i \div width
  IN x >= 1 /\ x < width - 1 /\ y >= 1 /\ y < height - 1

\* weighted sum of the 3x3 neighbourhood of pixel i under kernel k
Conv3(data, width, i, k) ==
  LET t(ky, kx) == data[i + ky * width + kx] * k[ky + 2][kx + 2]
  IN t(-1, -1) + t(-1, 0) + t(-1, 1)
     + t(0, -1) + t(0, 0) + t(0, 1)
     + t(1, -1) + t(1, 0) + t(1, 1)

\* imageData = [width, height, data], data[i] = <<r, g, b, a>> of pixel i
toGrayscale(imageData) ==
  [i \in 0..(imageData.width * imageData.height - 1) |->
     LET p == imageData.data[i]
     IN ToUint8Clamp(MathRound(299 * p[1] + 587 * p[2] + 114 * p[3], 1000), 1)]

gaussianKernel == <<<<1, 2, 1>>, <<2, 4, 2>>, <<1, 2, 1>>>>

\* result is a fresh zeroed buffer; only interior pixels are written
gaussianBlur(data, width, height) ==
  [i \in DOMAIN data |->
     IF Interior(i, width, height)
     THEN ToUint8Clamp(Conv3(data, width, i, gaussianKernel), 16)
     ELSE 0]

sobelX == <<<<-1, 0, 1>>, <<-2, 0, 2>>, <<-1, 0, 1>>>>

sobelY == <<<<-1, -2, -1>>, <<0, 0, 0>>, <<1, 2, 1>>>>

\* a Sobel that also covers the border, reading the nearest pixel of the raster
\* where the 3x3 neighbourhood reaches outside it
sobelEdgeDetectionPadded(data, width, height) ==
  LET at(x, y) == data[Max2(0, Min2(y, height - 1)) * width + Max2(0, Min2(x, width - 1))]
      g(i, k) == at((i % width) - 1, (i \div width) - 1) * k[1][1]
                 + at(i % width, (i \div width) - 1) * k[1][2]
                 + at((i % width) + 1, (i \div width) - 1) * k[1][3]
                 + at((i % width) - 1, i \div width) * k[2][1]
                 + at((i % width) + 1, i \div width) * k[2][3]
                 + at((i % width) - 1, (i \div width) + 1) * k[3][1]
                 + at(i % width, (i \div width) + 1) * k[3][2]
                 + at((i % width) + 1, (i \div width) + 1) * k[3][3]
  IN [magnitude |-> [i \in DOMAIN data |->
                       g(i, sobelX) * g(i, sobelX) + g(i, sobelY) * g(i, sobelY)],
      direction |-> [i \in DOMAIN data |-> <<g(i, sobelY), g(i, sobelX)>>]]

\* magnitude[i] = gx^2 + gy^2 (the square of the code's value),
\* direction[i] = <<gy, gx>> (the arguments of the code's atan2)
sobelEdgeDetection(data, width, height) ==
  LET gx(i) == Conv3(data, width, i, sobelX)
      gy(i) == Conv3(data, width, i, sobelY)
  IN [magnitude |-> [i \in DOMAIN data |->
                       IF Interior(i, width, height)
                       THEN gx(i) * gx(i) + gy(i) * gy(i) ELSE 0],
      direction |-> [i \in DOMAIN data |->
                       IF Interior(i, width, height)
                       THEN <<gy(i), gx(i)>> ELSE <<0, 0>>]]

\* The band of normalizedAngle = atan2(gy,gx) in degrees, +180 when negative:
\* 0 for [0,22.5) or [157.5,180], 1 for [22.5,67.5), 2 for [67.5,112.5), 3 else.
\* tan 22.5 = sqrt2 - 1 and tan 67.5 = sqrt2 + 1, so each test is on squares.
\* atan2(0, gx) with gx < 0 is pi, which the Float32Array holds as 3.1415927 > pi:
\* its angle 180.000005 fails "<= 180" and falls to the else branch.
AngleBand(dir) ==
  LET neg == dir[1] < 0
      a == IF neg THEN -dir[2] ELSE dir[2]
      b == IF neg THEN -dir[1] ELSE dir[1]
      m == Abs(a)
      below225 == (b + m) * (b + m) < 2 * m * m
      below675 == b - m < 0 \/ (b - m) * (b - m) < 2 * m * m
  IN IF dir[1] = 0 /\ dir[2] < 0 THEN 3
     ELSE IF (a = 0 /\ b = 0) \/ below225 THEN 0
     ELSE IF a > 0 /\ below675 THEN 1
     ELSE IF ~below675 THEN 2
     ELSE 3

nonMaxSuppression(magnitude, direction, width, height) ==
  [i \in DOMAIN magnitude |->
     IF ~Interior(i, width, height) THEN 0
     ELSE LET band == AngleBand(direction[i])
              neighbor1 == IF band = 0 THEN magnitude[i + 1]
                           ELSE IF band = 1 THEN magnitude[i + width - 1]
                           ELSE IF band = 2 THEN magnitude[i + width]
                           ELSE magnitude[i - width - 1]
              neighbor2 == IF band = 0 THEN magnitude[i - 1]
                           ELSE IF band = 1 THEN magnitude[i - width + 1]
                           ELSE IF band = 2 THEN magnitude[i - width]
                           ELSE magnitude[i + width + 1]
          IN IF magnitude[i] >= neighbor1 /\ magnitude[i] >= neighbor2
             THEN magnitude[i] ELSE 0]

MaxOf(edges) ==
  IF DOMAIN edges = {} THEN 0
  ELSE LET top == CHOOSE i \in DOMAIN edges : \A j \in DOMAIN edges : edges[j] <= edges[i]
       IN IF edges[top] > 0 THEN edges[top] ELSE 0

\* edges[i] >= maxMag * 0.15, on squared magnitudes: 20 e >= 3 max
AtLeastHigh(e2, max2) == 400 * e2 >= 9 * max2

\* edges[i] >= maxMag * 0.15 * 0.4, on squared magnitudes: 50 e >= 3 max
AtLeastLow(e2, max2) == 2500 * e2 >= 9 * max2

\* doubleThreshold without its hysteresis loop
hysteresisSkipped(thresholded, width, height) == thresholded

\* the hysteresis loop: one raster-order pass that rewrites result in place
hysteresis(thresholded, width, height) ==
  LET visit(result, i) ==
        IF Interior(i, width, height) /\ result[i] = 128
        THEN LET hasStrongNeighbor ==
                   \E dy \in -1..1 : \E dx \in -1..1 : result[i + dy * width + dx] = 255
             IN [result EXCEPT ![i] = IF hasStrongNeighbor THEN 255 ELSE 0]
        ELSE result
  IN Fold(visit, thresholded, 0, width * height - 1)

doubleThreshold(edges, width, height) ==
  LET maxMag == MaxOf(edges)
      result == [i \in DOMAIN edges |->
                   IF AtLeastHigh(edges[i], maxMag) THEN 255
                   ELSE IF AtLeastLow(edges[i], maxMag) THEN 128
                   ELSE 0]
  IN hysteresis(result, width, height)

\* ------------------------------------------------------- stage 6: contours

\* the 4 axis neighbours only, each twice
directionsAxisOnly == <<<<0, 1>>, <<0, 1>>, <<1, 0>>, <<1, 0>>,
                        <<0, -1>>, <<0, -1>>, <<-1, 0>>, <<-1, 0>>>>

directions == <<<<0, 1>>, <<1, 1>>, <<1, 0>>, <<1, -1>>,
               <<0, -1>>, <<-1, -1>>, <<-1, 0>>, <<-1, 1>>>>

\* stack.pop() that leaves the stack as it is
notPopped(stack) == stack

\* what stack.pop() leaves: the top is the last element
popped(stack) == SubSeq(stack, 1, Len(stack) - 1)

\* traceContour with a visited array of its own, every pixel unvisited
startTraceFreshVisited(visited, startX, startY) ==
  [stack |-> <<<<startX, startY>>>>, visited |-> [i \in DOMAIN visited |-> 0],
   contour |-> <<>>]

\* entry of traceContour: visited belongs to findContours and is shared by all calls
startTrace(visited, startX, startY) ==
  [stack |-> <<<<startX, startY>>>>, visited |-> visited, contour |-> <<>>]

\* one turn of traceContour's while loop on t = [stack, visited, contour]: pop,
\* skip what is out of bounds, visited or 0, else mark, record and push the 8
\* neighbours.  stack is a sequence whose last element is the top.
traceTurn(t, edges, width, height) ==
  IF Len(t.stack) = 0 THEN t
  ELSE LET x == t.stack[Len(t.stack)][1]
           y == t.stack[Len(t.stack)][2]
           rest == popped(t.stack)
           idx == y * width + x
       IN IF x < 0 \/ x >= width \/ y < 0 \/ y >= height
          THEN [t EXCEPT !.stack = rest]
          ELSE IF t.visited[idx] = 1 \/ edges[idx] = 0
          THEN [t EXCEPT !.stack = rest]
          ELSE [stack |-> rest \o [d \in 1..8 |->
                            <<x + directions[d][1], y + directions[d][2]>>],
                visited |-> [t.visited EXCEPT ![idx] = 1],
                contour |-> Append(t.contour, [x |-> x, y |-> y])]

\* traceContour: a traced pixel pushes 8 entries and each turn pops one, so
\* 8 * width * height + 1 turns empty the stack
traceContour(startX, startY, visited0, edges, width, height) ==
  Fold(LAMBDA t, k : traceTurn(t, edges, width, height),
       startTrace(visited0, startX, startY),
       1, 8 * width * height + 1)

\* contours longer than this are kept (contour.length > 50)
MinContour == 50

findContours(edges, width, height) ==
  LET seed(f, idx) ==
        IF edges[idx] = 255 /\ f.visited[idx] = 0
        THEN LET t == traceContour(idx % width, idx \div width, f.visited,
                                   edges, width, height)
             IN [visited |-> t.visited,
                 contours |-> IF Len(t.contour) > MinContour
                              THEN Append(f.contours, t.contour)
                              ELSE f.contours]
        ELSE f
  IN Fold(seed, [visited |-> [i \in DOMAIN edges |-> 0], contours |-> <<>>],
          0, width * height - 1).contours

\* ------------------------------------------------- stages 7 and 8: geometry

Cross(o, a, b) == (a.x - o.x) * (b.y - o.y) - (a.y - o.y) * (b.x - o.x)

\* index of the lowest point (lowest y, then lowest x), first one on ties
lowestOf(points) ==
  LET better(lowest, i) ==
        IF points[i].y < points[lowest].y
           \/ (points[i].y = points[lowest].y /\ points[i].x < points[lowest].x)
        THEN i ELSE lowest
  IN Fold(better, 1, 2, Len(points))

\* angleA - angleB < 0 for points at or above the pivot: atan2 of both lies in
\* [0, pi], where the angle order is the sign of the cross product
AngleLess(pivot, a, b) ==
  LET zeroA == a.x = pivot.x /\ a.y = pivot.y
      zeroB == b.x = pivot.x /\ b.y = pivot.y
  IN IF zeroB THEN FALSE
     ELSE IF zeroA THEN ~(b.y = pivot.y /\ b.x > pivot.x)
     ELSE Cross(pivot, a, b) > 0
          \/ (Cross(pivot, a, b) = 0 /\ a.y = pivot.y /\ b.y = pivot.y
              /\ a.x > pivot.x /\ b.x < pivot.x)

\* the while loop of the sweep: pop while the turn second -> top -> point is not
\* a left turn; at most Len(hull) pops
popWhile(hull0, point) ==
  LET pop(hull, k) ==
        IF Len(hull) > 1
           /\ Cross(hull[Len(hull) - 1], hull[Len(hull)], point) <= 0
        THEN SubSeq(hull, 1, Len(hull) - 1)
        ELSE hull
  IN Fold(pop, hull0, 1, Len(hull0))

\* the sweep over the points sorted by polar angle about the pivot
grahamScan(pivot, sorted) ==
  Fold(LAMBDA hull, i : Append(popWhile(hull, sorted[i]), sorted[i]),
       <<pivot>>, 1, Len(sorted))

\* swapped is points with the lowest point moved to the front
sortAndScan(swapped) ==
  grahamScan(swapped[1],
             StableSort(SubSeq(swapped, 2, Len(swapped)),
                        LAMBDA a, b : AngleLess(swapped[1], a, b)))

swapLowest(points, lowest) ==
  [points EXCEPT ![1] = points[lowest], ![lowest] = points[1]]

convexHull(points) ==
  IF Len(points) < 3 THEN points
  ELSE sortAndScan(swapLowest(points, lowestOf(points)))

\* lengths are fixed point: FixQ units per pixel
FixQ == 64

\* Math.hypot(dx, dy) in 1/FixQ pixel
Hypot(dx, dy) == ISqrt((dx * dx + dy * dy) * FixQ * FixQ)

\* distance from point to the segment lineStart..lineEnd, in 1/FixQ pixel.
\* For 0 <= param <= 1 the foot (xx, yy) gives point - foot = cross/lenSq * (D, -C),
\* whose length is |cross| / sqrt(lenSq).
pointToLineDistance(point, lineStart, lineEnd) ==
  LET A == point.x - lineStart.x
      B == point.y - lineStart.y
      C == lineEnd.x - lineStart.x
      D == lineEnd.y - lineStart.y
      dot == A * C + B * D
      lenSq == C * C + D * D
  IN IF lenSq = 0 \/ dot < 0 THEN Hypot(A, B)
     ELSE IF dot > lenSq THEN Hypot(point.x - lineEnd.x, point.y - lineEnd.y)
     ELSE (Abs(A * D - B * C) * FixQ * FixQ) \div Hypot(C, D)

Includes(result, p) == \E i \in 1..Len(result) : result[i] = p

\* a collapse that pushes the start point twice
keepStartUnchecked(result, startPoint) == Append(Append(result, startPoint), startPoint)

\* the span collapses to its start point: if (!result.includes(p)) result.push(p)
keepStart(result, startPoint) ==
  IF ~Includes(result, startPoint) THEN Append(result, startPoint) ELSE result

\* epsilon is the rational epsilon[1]/epsilon[2]; hull is 1-indexed here, so the
\* code's hull[k % hull.length] is hull[(k % n) + 1]
approximatePolygon(hull, epsilon) ==
  IF Len(hull) < 4 THEN hull
  ELSE
    LET n == Len(hull)
        at(k) == hull[(k % n) + 1]
        totalLength ==
          Fold(LAMBDA sum, i : sum + Hypot(at(i + 1).x - at(i).x, at(i + 1).y - at(i).y),
               0, 0, n - 1)
        further(m, i, dist) == IF dist > m[1] THEN <<dist, i>> ELSE m
        \* the scan for the furthest point: <<maxDist, maxIdx>>
        furthest(start, end) ==
          Fold(LAMBDA m, i : further(m, i, pointToLineDistance(at(i), at(start), at(end))),
               <<0, start>>, start + 1, end - 1)
        RECURSIVE douglasPeucker(_, _, _)
        RECURSIVE split(_, _, _, _)
        split(start, end, result, m) ==
          IF m[1] * epsilon[2] > epsilon[1] * totalLength
          THEN douglasPeucker(m[2], end, douglasPeucker(start, m[2], result))
          ELSE keepStart(result, at(start))
        douglasPeucker(start, end, result) ==
          split(start, end, result, furthest(start, end))
    IN douglasPeucker(0, n, <<>>)

\* ------------------------------------------------ stages 9 and 10: selection

\* units of 1/SubPx pixel for returned corners: margin = min(w,h) * 0.05
SubPx == 20

ToSub(p) == [x |-> p.x * SubPx, y |-> p.y * SubPx]

\* orderCorners with its second and fourth results exchanged
orderCornersSwapped(corners) ==
  LET sorted == StableSort(corners, LAMBDA a, b : a.x + a.y < b.x + b.y)
      remaining == StableSort(<<sorted[2], sorted[3]>>,
                              LAMBDA a, b : b.x - b.y < a.x - a.y)
  IN <<sorted[1], remaining[2], sorted[4], remaining[1]>>

orderCorners(corners) ==
  LET sorted == StableSort(corners, LAMBDA a, b : a.x + a.y < b.x + b.y)
      topLeft == sorted[1]
      bottomRight == sorted[4]
      remaining == StableSort(<<sorted[2], sorted[3]>>,
                              LAMBDA a, b : b.x - b.y < a.x - a.y)
      topRight == remaining[1]
      bottomLeft == remaining[2]
  IN <<topLeft, topRight, bottomRight, bottomLeft>>

\* twice the shoelace area of a 4-point polygon
Area2(polygon) ==
  Abs((polygon[1].x * polygon[2].y - polygon[2].x * polygon[1].y)
      + (polygon[2].x * polygon[3].y - polygon[3].x * polygon[2].y)
      + (polygon[3].x * polygon[4].y - polygon[4].x * polygon[3].y)
      + (polygon[4].x * polygon[1].y - polygon[1].x * polygon[4].y))

\* a test that accepts every area ratio
AreaAcceptedAlways(area2, imageArea) == TRUE

\* areaRatio > 0.1 && areaRatio < 0.95 with areaRatio = area2 / (2 * imageArea)
AreaAccepted(area2, imageArea) ==
  5 * area2 > imageArea /\ 10 * area2 < 19 * imageArea

\* one turn of the loop that lets a later polygon of equal score replace the best
considerLatest(best, polygon, width, height) ==
  IF Len(polygon) = 4
     /\ AreaAccepted(Area2(polygon), width * height)
     /\ Area2(polygon) * 100 >= best.score
  THEN [quad |-> polygon, score |-> Area2(polygon) * 100]
  ELSE best

\* the loop over contours: best = [quad, score], score in units of
\* 1/(2*width*height), so that areaRatio * 100 is area2 * 100
\* one turn of the loop, polygon being the approximated hull of the contour
consider(best, polygon, width, height) ==
  IF Len(polygon) = 4
     /\ AreaAccepted(Area2(polygon), width * height)
     /\ Area2(polygon) * 100 > best.score
  THEN [quad |-> polygon, score |-> Area2(polygon) * 100]
  ELSE best

bestOf(contours, width, height) ==
  Fold(LAMBDA best, i :
         consider(best, approximatePolygon(convexHull(contours[i]), <<2, 100>>),
                  width, height),
       [quad |-> <<>>, score |-> 0], 1, Len(contours))

\* a fallback whose margin is 0.05 * width on every side
fallbackQuadByWidth(width, height) ==
  <<[x |-> width, y |-> width],
    [x |-> width * SubPx - width, y |-> width],
    [x |-> width * SubPx - width, y |-> height * SubPx - width],
    [x |-> width, y |-> height * SubPx - width]>>

\* a fallback inset by 0.05 * width at the sides and 0.05 * height at top and bottom
fallbackQuadPerAxis(width, height) ==
  <<[x |-> width, y |-> height],
    [x |-> width * SubPx - width, y |-> height],
    [x |-> width * SubPx - width, y |-> height * SubPx - height],
    [x |-> width, y |-> height * SubPx - height]>>

\* the fallback rectangle, in 1/SubPx pixel: margin = min(width, height) * 0.05
fallbackQuad(width, height) ==
  LET margin == Min2(width, height)
  IN <<[x |-> margin, y |-> margin],
       [x |-> width * SubPx - margin, y |-> margin],
       [x |-> width * SubPx - margin, y |-> height * SubPx - margin],
       [x |-> margin, y |-> height * SubPx - margin]>>

\* Math.min(bestScore, 95) as the rational <<num, den>>
clampConfidence(score, den) == <<Min2(score, 95 * den), den>>

\* what follows the loop: the fallback when no quadrilateral was kept, then the
\* ordering of the corners and the clamp of the score
selectQuad(best, width, height) ==
  IF Len(best.quad) = 4
  THEN [corners |-> orderCorners([k \in 1..4 |-> ToSub(best.quad[k])]),
        confidence |-> clampConfidence(best.score, 2 * width * height)]
  ELSE [corners |-> orderCorners(fallbackQuad(width, height)),
        confidence |-> clampConfidence(30 * 2 * width * height, 2 * width * height)]

findBestQuadrilateral(contours, width, height) ==
  selectQuad(bestOf(contours, width, height), width, height)

\* ------------------------------------- stages 11 and 12: homography, warp

\* exact rationals <<n, d>> with d > 0, in lowest terms
RECURSIVE GCD(_, _)
GCD(a, b) == IF b = 0 THEN a ELSE GCD(b, a % b)

Rat(n, d) ==
  LET g == GCD(Abs(n), Abs(d))
      sg == IF d < 0 THEN -1 ELSE 1
  IN <<(sg * n) \div g, (sg * d) \div g>>

RInt(n) == <<n, 1>>

RAdd(a, b) == Rat(a[1] * b[2] + b[1] * a[2], a[2] * b[2])

RSub(a, b) == Rat(a[1] * b[2] - b[1] * a[2], a[2] * b[2])

RMul(a, b) == Rat(a[1] * b[1], a[2] * b[2])

RDiv(a, b) == Rat(a[1] * b[2], a[2] * b[1])

RNeg(a) == <<-a[1], a[2]>>

\* Math.abs(a) > Math.abs(b)
RAbsGreater(a, b) == Abs(a[1]) * b[2] > Abs(b[1]) * a[2]

RFloor(a) == a[1] \div a[2]

\* solveHomography: normal equations AtA x = Atb of the 8x9 matrix A (rows and
\* columns 1-indexed here), Gaussian elimination with partial pivoting, back
\* substitution; a zero pivot skips the division
sumRows(term(_)) == Fold(LAMBDA acc, i : RAdd(acc, term(i)), RInt(0), 1, 8)

normalEquations(A) ==
  [AtA |-> [j \in 1..8 |-> [k \in 1..8 |-> sumRows(LAMBDA i : RMul(A[i][j], A[i][k]))]],
   Atb |-> [j \in 1..8 |-> sumRows(LAMBDA i : RMul(A[i][j], RNeg(A[i][9])))]]

\* the row at or below i whose entry in column i is largest in magnitude
maxRowOf(m, i) ==
  Fold(LAMBDA best, k : IF RAbsGreater(m.AtA[k][i], m.AtA[best][i]) THEN k ELSE best,
       i, i + 1, 8)

swapRows(m, i, maxRow) ==
  [AtA |-> [m.AtA EXCEPT ![i] = m.AtA[maxRow], ![maxRow] = m.AtA[i]],
   Atb |-> [m.Atb EXCEPT ![i] = m.Atb[maxRow], ![maxRow] = m.Atb[i]]]

\* rows below i lose c times row i, c = AtA[k][i] / AtA[i][i]; a zero pivot
\* skips the elimination
eliminateBelow(m, i) ==
  IF m.AtA[i][i][1] = 0 THEN m
  ELSE [AtA |-> [k \in 1..8 |-> [j \in 1..8 |->
                   IF k > i /\ j >= i
                   THEN RSub(m.AtA[k][j],
                             RMul(RDiv(m.AtA[k][i], m.AtA[i][i]), m.AtA[i][j]))
                   ELSE m.AtA[k][j]]],
        Atb |-> [k \in 1..8 |->
                   IF k > i
                   THEN RSub(m.Atb[k], RMul(RDiv(m.AtA[k][i], m.AtA[i][i]), m.Atb[i]))
                   ELSE m.Atb[k]]]

eliminate(m, i) == eliminateBelow(swapRows(m, i, maxRowOf(m, i)), i)

divideByPivot(rest, pivot) == IF pivot[1] # 0 THEN RDiv(rest, pivot) ELSE rest

\* back substitution, i = 8 down to 1 (turn t handles i = 9 - t)
backSubstitute(tri) ==
  Fold(LAMBDA x, t :
         [x EXCEPT ![9 - t] =
            divideByPivot(Fold(LAMBDA acc, j : RSub(acc, RMul(tri.AtA[9 - t][j], x[j])),
                               tri.Atb[9 - t], 10 - t, 8),
                          tri.AtA[9 - t][9 - t])],
       [j \in 1..8 |-> RInt(0)], 1, 8)

withOne(x) == [j \in 1..9 |-> IF j = 9 THEN RInt(1) ELSE x[j]]

\* solveHomography: normal equations AtA x = Atb of the 8x9 matrix A (rows and
\* columns 1-indexed here), Gaussian elimination with partial pivoting, back
\* substitution
solveHomography(A) ==
  withOne(backSubstitute(Fold(eliminate, normalEquations(A), 1, 8)))

homographyRows(s, d) ==
  <<<<RNeg(s.x), RNeg(s.y), RInt(-1), RInt(0), RInt(0), RInt(0),
      RMul(s.x, d.x), RMul(s.y, d.x), d.x>>,
    <<RInt(0), RInt(0), RInt(0), RNeg(s.x), RNeg(s.y), RInt(-1),
      RMul(s.x, d.y), RMul(s.y, d.y), d.y>>>>

\* src and dst are 4 points with rational coordinates
computeHomography(src, dst) ==
  solveHomography(homographyRows(src[1], dst[1]) \o homographyRows(src[2], dst[2])
                  \o homographyRows(src[3], dst[3]) \o homographyRows(src[4], dst[4]))

ToUint8ClampRat(v) == ToUint8Clamp(v[1], v[2])

\* the four-neighbour blend of channel c
bilinear(source, x0, y0, xWeight, yWeight, c) ==
  RAdd(RAdd(RMul(RInt(source.data[y0 * source.width + x0][c]),
                 RMul(RSub(RInt(1), xWeight), RSub(RInt(1), yWeight))),
            RMul(RInt(source.data[y0 * source.width + x0 + 1][c]),
                 RMul(xWeight, RSub(RInt(1), yWeight)))),
       RAdd(RMul(RInt(source.data[(y0 + 1) * source.width + x0][c]),
                 RMul(RSub(RInt(1), xWeight), yWeight)),
            RMul(RInt(source.data[(y0 + 1) * source.width + x0 + 1][c]),
                 RMul(xWeight, yWeight))))

\* a sampler that clamps to the nearest source pixel where the bounds test fails
sampleAtClamped(source, srcX, srcY, x0, y0) ==
  IF x0 >= 0 /\ x0 + 1 < source.width /\ y0 >= 0 /\ y0 + 1 < source.height
  THEN [c \in 1..4 |->
          ToUint8ClampRat(bilinear(source, x0, y0, RSub(srcX, RInt(x0)),
                                   RSub(srcY, RInt(y0)), c))]
  ELSE source.data[Max2(0, Min2(y0, source.height - 1)) * source.width
                   + Max2(0, Min2(x0, source.width - 1))]

\* the bounds test and the write of the four channels; a pixel that is not
\* written keeps the zeros createImageData gave it
sampleAt(source, srcX, srcY, x0, y0) ==
  IF x0 >= 0 /\ x0 + 1 < source.width /\ y0 >= 0 /\ y0 + 1 < source.height
  THEN [c \in 1..4 |->
          ToUint8ClampRat(bilinear(source, x0, y0, RSub(srcX, RInt(x0)),
                                   RSub(srcY, RInt(y0)), c))]
  ELSE <<0, 0, 0, 0>>

sample(source, srcX, srcY) == sampleAt(source, srcX, srcY, RFloor(srcX), RFloor(srcY))

homogeneous(a, b, c, x, y) == RAdd(RAdd(RMul(a, RInt(x)), RMul(b, RInt(y))), c)

\* w = 0 makes srcX and srcY infinite or NaN, which fail the bounds test
project(source, H, x, y, w) ==
  IF w[1] = 0 THEN <<0, 0, 0, 0>>
  ELSE sample(source, RDiv(homogeneous(H[1], H[2], H[3], x, y), w),
              RDiv(homogeneous(H[4], H[5], H[6], x, y), w))

resample(source, H, outputWidth, outputHeight) ==
  [i \in 0..(outputWidth * outputHeight - 1) |->
     project(source, H, i % outputWidth, i \div outputWidth,
             homogeneous(H[7], H[8], H[9], i % outputWidth, i \div outputWidth))]

\* source = [width, height, data] with data[i] = <<r, g, b, a>>; corners in
\* 1/SubPx pixel; returns the data of the output canvas.  H is 1-indexed: H[k + 1]
\* is the code's H[k].
perspectiveTransform(source, corners, outputWidth, outputHeight) ==
  resample(source,
           computeHomography(<<[x |-> RInt(0), y |-> RInt(0)],
                               [x |-> RInt(outputWidth), y |-> RInt(0)],
                               [x |-> RInt(outputWidth), y |-> RInt(outputHeight)],
                               [x |-> RInt(0), y |-> RInt(outputHeight)]>>,
                             [k \in 1..4 |-> [x |-> Rat(corners[k].x, SubPx),
                                              y |-> Rat(corners[k].y, SubPx)]]),
           outputWidth, outputHeight)

\* ------------------------------------------------------- processDocument

VARIABLES
  imageData,   \* the argument of processDocument: what the data URL decodes to
  pc,          \* position of the call: idle, loading, the step of img.onload, done, error, threw
  promise,     \* the promise processDocument returned: none, pending, resolved
  canvas,      \* [width, height] of the processing canvas
  imgData,     \* ctx.getImageData(...).data, one <<r,g,b,a>> per pixel
  gray, blurred, sobel, thinEdges, edges, contours,   \* locals of steps 1 to 6
  detection,   \* the value findBestQuadrilateral returned
  result,      \* the ProcessingResult the promise resolved with
  reordered,   \* orderCorners on its own: a corner list and its successive orderings
  source,      \* perspectiveTransform on its own: the source canvas [width, height, data]
  warpCall,    \* ... its arguments [corners, outputWidth, outputHeight]
  output,      \* ... the data of the canvas it returned
  points,      \* convexHull on its own: the point list it is called with
  hulls,       \* ... the lists it has returned (none or one)
  scanIdx,     \* findContours step by step: idx of the scan loop
  trace,       \* ... [stack, visited, contour] of traceContour and its closure
  traced,      \* ... every contour traceContour has returned, kept or discarded
  approxHull,  \* approximatePolygon on its own: the hull it is called with
  approximated, \* ... the lists it has returned (none or one)
  ui,          \* Dashboard: the component's state (the useState values)
  table,       \* ... the rows of public.documents, by id
  runs,        \* ... the handleFileSelect calls: position and locals of each
  removal,     \* ... the handleDelete call: position and the document it captured
  documents    \* ... the list fetchDocuments last stored

None == "none"

\* bounds of the rasters drawn as inputs
MaxDim == 8

Black == <<0, 0, 0, 255>>

Grey == <<128, 128, 128, 255>>

White == <<255, 255, 255, 255>>

Solid(w, h, c) ==
  [kind |-> "image", width |-> w, height |-> h, data |-> [i \in 0..(w * h - 1) |-> c]]

\* a page of colour fg covering columns x0..x1 and rows y0..y1 of a bg raster
Page(w, h, bg, fg, x0, y0, x1, y1) ==
  [kind |-> "image", width |-> w, height |-> h,
   data |-> [i \in 0..(w * h - 1) |->
               IF i % w >= x0 /\ i % w <= x1 /\ i \div w >= y0 /\ i \div w <= y1
               THEN fg ELSE bg]]

Undecodable == [kind |-> "undecodable", width |-> 0, height |-> 0, data |-> <<>>]

SolidInputs == {Solid(w, h, c) : w \in 0..MaxDim, h \in 0..MaxDim, c \in {Black, Grey, White}}

PageInputs ==
  {Page(16, 16, Black, White, 3, 3, 12, 12),
   Page(16, 16, White, Black, 3, 3, 12, 12),
   Page(12, 12, Black, White, 2, 2, 9, 9),
   Page(14, 14, White, Black, 2, 2, 11, 11),
   Page(20, 20, Black, White, 4, 4, 15, 15),
   Page(20, 20, Black, White, 3, 5, 14, 17)}

Inputs == {Undecodable} \cup SolidInputs \cup PageInputs

lowConfidenceWarning == "Low confidence detection. Document edges may not be accurate."

Undefined == "undefined"

locals == <<canvas, imgData, gray, blurred, sobel, thinEdges, edges, contours, detection>>

callVars == <<imageData, pc, promise, locals, result>>

orderVars == <<reordered>>

warpVars == <<source, warpCall, output>>

hullVars == <<points, hulls>>

scanVars == <<scanIdx, trace, traced>>

approxVars == <<approxHull, approximated>>

dashVars == <<ui, table, runs, removal, documents>>

vars == <<callVars, orderVars, warpVars, hullVars, scanVars, approxVars, dashVars>>

callUnused ==
  /\ imageData = None /\ pc = None /\ promise = None
  /\ canvas = None /\ imgData = None /\ gray = None /\ blurred = None
  /\ sobel = None /\ thinEdges = None /\ edges = None /\ contours = None
  /\ detection = None /\ result = None

orderUnused == reordered = None

\* the output canvas before perspectiveTransform has run: no pixel data
NoOutput == <<>>

warpUnused == source = None /\ warpCall = None /\ output = NoOutput

hullUnused == points = None /\ hulls = None

scanUnused == scanIdx = None /\ trace = None /\ traced = None

approxUnused == approxHull = None /\ approximated = None

dashUnused ==
  ui = None /\ table = None /\ runs = None /\ removal = None /\ documents = None

Init ==
  /\ imageData \in Inputs
  /\ pc = "idle"
  /\ promise = None
  /\ canvas = None /\ imgData = None /\ gray = None /\ blurred = None
  /\ sobel = None /\ thinEdges = None /\ edges = None /\ contours = None
  /\ detection = None
  /\ result = None
  /\ orderUnused /\ warpUnused /\ hullUnused /\ scanUnused /\ approxUnused /\ dashUnused

\* processDocument(imageData): the promise is created and img.src is set
processDocument ==
  /\ pc = "idle"
  /\ promise' = "pending"
  /\ pc' = "loading"
  /\ UNCHANGED <<imageData, locals, result>>
  /\ UNCHANGED <<orderVars, warpVars, hullVars, scanVars>>
  /\ UNCHANGED <<approxVars, dashVars>>

\* the image fails to load: there is no img.onerror and no reject, nothing runs.
\* A zero-area image either fails to load or loads and fails in imgOnload.
imgError ==
  /\ pc = "loading"
  /\ imageData.kind = "undecodable" \/ imageData.width = 0 \/ imageData.height = 0
  /\ pc' = "error"
  /\ UNCHANGED <<imageData, promise, locals, result>>
  /\ UNCHANGED <<orderVars, warpVars, hullVars, scanVars>>
  /\ UNCHANGED <<approxVars, dashVars>>

\* img.onload up to getImageData, which throws IndexSizeError on a zero-area
\* canvas: the exception leaves the handler and the promise is never settled
imgOnload ==
  /\ pc = "loading"
  /\ imageData.kind = "image"
  /\ canvas' = [width |-> imageData.width, height |-> imageData.height]
  /\ IF imageData.width = 0 \/ imageData.height = 0
     THEN pc' = "threw" /\ UNCHANGED imgData
     ELSE pc' = "step1" /\ imgData' = imageData.data
  /\ UNCHANGED <<imageData, promise, gray, blurred, sobel, thinEdges, edges, contours,
                 detection, result>>
  /\ UNCHANGED <<orderVars, warpVars, hullVars, scanVars>>
  /\ UNCHANGED <<approxVars, dashVars>>

step1Grayscale ==
  /\ pc = "step1"
  /\ gray' = toGrayscale([width |-> canvas.width, height |-> canvas.height, data |-> imgData])
  /\ pc' = "step2"
  /\ UNCHANGED <<imageData, promise, canvas, imgData, blurred, sobel, thinEdges, edges,
                 contours, detection, result>>
  /\ UNCHANGED <<orderVars, warpVars, hullVars, scanVars>>
  /\ UNCHANGED <<approxVars, dashVars>>

step2Blur ==
  /\ pc = "step2"
  /\ blurred' = gaussianBlur(gray, canvas.width, canvas.height)
  /\ pc' = "step3"
  /\ UNCHANGED <<imageData, promise, canvas, imgData, gray, sobel, thinEdges, edges,
                 contours, detection, result>>
  /\ UNCHANGED <<orderVars, warpVars, hullVars, scanVars>>
  /\ UNCHANGED <<approxVars, dashVars>>

step3Sobel ==
  /\ pc = "step3"
  /\ sobel' = sobelEdgeDetection(blurred, canvas.width, canvas.height)
  /\ pc' = "step4"
  /\ UNCHANGED <<imageData, promise, canvas, imgData, gray, blurred, thinEdges, edges,
                 contours, detection, result>>
  /\ UNCHANGED <<orderVars, warpVars, hullVars, scanVars>>
  /\ UNCHANGED <<approxVars, dashVars>>

step4NonMax ==
  /\ pc = "step4"
  /\ thinEdges' = nonMaxSuppression(sobel.magnitude, sobel.direction, canvas.width, canvas.height)
  /\ pc' = "step5"
  /\ UNCHANGED <<imageData, promise, canvas, imgData, gray, blurred, sobel, edges,
                 contours, detection, result>>
  /\ UNCHANGED <<orderVars, warpVars, hullVars, scanVars>>
  /\ UNCHANGED <<approxVars, dashVars>>

step5Threshold ==
  /\ pc = "step5"
  /\ edges' = doubleThreshold(thinEdges, canvas.width, canvas.height)
  /\ pc' = "step6"
  /\ UNCHANGED <<imageData, promise, canvas, imgData, gray, blurred, sobel, thinEdges,
                 contours, detection, result>>
  /\ UNCHANGED <<orderVars, warpVars, hullVars, scanVars>>
  /\ UNCHANGED <<approxVars, dashVars>>

step6Contours ==
  /\ pc = "step6"
  /\ contours' = findContours(edges, canvas.width, canvas.height)
  /\ pc' = "step7"
  /\ UNCHANGED <<imageData, promise, canvas, imgData, gray, blurred, sobel, thinEdges,
                 edges, detection, result>>
  /\ UNCHANGED <<orderVars, warpVars, hullVars, scanVars>>
  /\ UNCHANGED <<approxVars, dashVars>>

step7BestQuad ==
  /\ pc = "step7"
  /\ detection' = findBestQuadrilateral(contours, canvas.width, canvas.height)
  /\ pc' = "step8"
  /\ UNCHANGED <<imageData, promise, canvas, imgData, gray, blurred, sobel, thinEdges,
                 edges, contours, result>>
  /\ UNCHANGED <<orderVars, warpVars, hullVars, scanVars>>
  /\ UNCHANGED <<approxVars, dashVars>>

Dist2(a, b) == (b.x - a.x) * (b.x - a.x) + (b.y - a.y) * (b.y - a.y)

\* Math.round(Math.max(hypot(p - q), hypot(r - s))) in pixels, for corners held in
\* 1/SubPx pixel: the k with (2k - 1) * SubPx <= 2 * sqrt(d2) < (2k + 1) * SubPx
outputSize(p, q, r, s) ==
  (ISqrt(4 * Max2(Dist2(p, q), Dist2(r, s))) \div SubPx + 1) \div 2

\* a warning only below the fallback's confidence
warningForBelowFallback(confidence) ==
  IF confidence[1] < 30 * confidence[2] THEN lowConfidenceWarning ELSE Undefined

\* confidence < 50 ? warning : undefined
warningFor(confidence) ==
  IF confidence[1] < 50 * confidence[2] THEN lowConfidenceWarning ELSE Undefined

\* steps 8 and 9 and resolve: createImageData throws on a zero output size; the
\* JPEG data URL is kept as the size of the canvas it encodes
step8Resolve ==
  /\ pc = "step8"
  /\ LET corners == detection.corners
         outputWidth == outputSize(corners[1], corners[2], corners[4], corners[3])
         outputHeight == outputSize(corners[1], corners[4], corners[2], corners[3])
     IN IF outputWidth = 0 \/ outputHeight = 0
        THEN pc' = "threw" /\ UNCHANGED <<promise, result>>
        ELSE /\ pc' = "done"
             /\ promise' = "resolved"
             /\ result' = [processedImageData |-> [width |-> outputWidth, height |-> outputHeight],
                           corners |-> corners,
                           confidence |-> detection.confidence,
                           warning |-> warningFor(detection.confidence)]
  /\ UNCHANGED <<imageData, locals>>
  /\ UNCHANGED <<orderVars, warpVars, hullVars, scanVars>>
  /\ UNCHANGED <<approxVars, dashVars>>

Next ==
  \/ processDocument
  \/ imgError
  \/ imgOnload
  \/ step1Grayscale
  \/ step2Blur
  \/ step3Sobel
  \/ step4NonMax
  \/ step5Threshold
  \/ step6Contours
  \/ step7BestQuad
  \/ step8Resolve

Spec == Init /\ [][Next]_vars

\* ------------------------------- findBestQuadrilateral on chosen contours

\* The call of step 7 onwards with contours given directly: the canvas sizes
\* and, per canvas, the point lists a contour is drawn from.
pt(x, y) == [x |-> x, y |-> y]

\* corners and edge midpoints of the rectangle x0..x1 by y0..y1
ring(x0, y0, x1, y1) ==
  LET mx == (x0 + x1) \div 2
      my == (y0 + y1) \div 2
  IN <<pt(mx, y0), pt(x0, y0), pt(x1, my), pt(x1, y0), pt(mx, y1), pt(x1, y1),
       pt(x0, my), pt(x0, y1)>>

\* A mask that is 255 everywhere is one component holding every pixel, whose
\* hull is the frame; this list keeps the frame's corner and mid-edge pixels.
frameContour(w, h) == ring(0, 0, w - 1, h - 1)

contourChoices(w, h) ==
  {frameContour(w, h),
   ring(w \div 20, h \div 20, w - w \div 20, h - h \div 20),
   ring(w \div 4, h \div 4, (3 * w) \div 4, (3 * h) \div 4),
   ring(0, 0, w \div 5, h \div 5),
   ring(0, 0, w \div 2, h \div 2),
   <<pt(0, 0), pt(w - 1, 0), pt(0, h - 1)>>,
   <<pt(w \div 2, 0), pt(w - 1, h \div 2), pt(w \div 2, h - 1), pt(0, h \div 2)>>,
   <<pt(w \div 4, 0), pt(w - 1, 0), pt(w - 1, h \div 2), pt(w \div 2, h - 1),
     pt(0, h \div 2)>>}

\* how many contours a drawn contour list holds at most
MaxContours == 2

contourLists(w, h) ==
  UNION {[1..n -> contourChoices(w, h)] : n \in 0..MaxContours}

quadCanvases ==
  {[width |-> 400, height |-> 300], [width |-> 10, height |-> 10],
   [width |-> 24, height |-> 16]}

InitQuad ==
  /\ imageData = None
  /\ pc = "step7"
  /\ promise = "pending"
  /\ canvas \in quadCanvases
  /\ contours \in contourLists(canvas.width, canvas.height)
  /\ imgData = None /\ gray = None /\ blurred = None /\ sobel = None
  /\ thinEdges = None /\ edges = None
  /\ detection = None
  /\ result = None
  /\ orderUnused /\ warpUnused /\ hullUnused /\ scanUnused /\ approxUnused /\ dashUnused

NextQuad ==
  \/ step7BestQuad
  \/ step8Resolve

SpecQuad == InitQuad /\ [][NextQuad]_vars

\* ------------------------------------------------- orderCorners on its own

\* corner coordinates are drawn from 0..MaxCoord
MaxCoord == 2

\* orderCorners is applied to its own output this many times
MaxReorders == 2

cornerLists ==
  [1..4 -> {pt(x, y) : x \in 0..MaxCoord, y \in 0..MaxCoord}]

InitOrder ==
  /\ reordered \in {<<c>> : c \in cornerLists}
  /\ callUnused /\ warpUnused /\ hullUnused /\ scanUnused /\ approxUnused /\ dashUnused

reorder ==
  /\ Len(reordered) <= MaxReorders
  /\ reordered' = Append(reordered, orderCorners(reordered[Len(reordered)]))
  /\ UNCHANGED <<callVars, warpVars, hullVars, scanVars>>
  /\ UNCHANGED <<approxVars, dashVars>>

NextOrder == reorder

SpecOrder == InitOrder /\ [][NextOrder]_vars

\* ------------------------------------------ perspectiveTransform on its own

\* source canvases are up to MaxSrc pixels wide and high
MaxSrc == 3

palette == <<<<0, 0, 0, 255>>, <<255, 255, 255, 255>>, <<90, 160, 30, 128>>>>

\* a w x h canvas whose pixel (x, y) has colour number (x + 2y + p) mod 3
patterned(w, h, p) ==
  [width |-> w, height |-> h,
   data |-> [i \in 0..(w * h - 1) |-> palette[(((i % w) + 2 * (i \div w) + p) % 3) + 1]]]

sources == {patterned(w, h, p) : w \in 1..MaxSrc, h \in 1..MaxSrc, p \in 0..2}

\* the rectangle (x0,y0)..(x1,y1) given in 1/SubPx pixel, in TL, TR, BR, BL order
rectCorners(x0, y0, x1, y1) == <<pt(x0, y0), pt(x1, y0), pt(x1, y1), pt(x0, y1)>>

\* the identity call, the frame moved up-left by one pixel, the frame moved by
\* half a pixel, and the identity quadrilateral at twice the size
warpCalls(w, h) ==
  {[corners |-> rectCorners(0, 0, w * SubPx, h * SubPx),
    outputWidth |-> w, outputHeight |-> h],
   [corners |-> rectCorners(-SubPx, -SubPx, (w - 1) * SubPx, (h - 1) * SubPx),
    outputWidth |-> w, outputHeight |-> h],
   [corners |-> rectCorners(SubPx \div 2, SubPx \div 2,
                            w * SubPx + SubPx \div 2, h * SubPx + SubPx \div 2),
    outputWidth |-> w, outputHeight |-> h],
   [corners |-> rectCorners(0, 0, w * SubPx, h * SubPx),
    outputWidth |-> 2 * w, outputHeight |-> 2 * h]}

InitWarp ==
  /\ source \in sources
  /\ warpCall \in warpCalls(source.width, source.height)
  /\ output = NoOutput
  /\ callUnused /\ orderUnused /\ hullUnused /\ scanUnused /\ approxUnused /\ dashUnused

warp ==
  /\ output = NoOutput
  /\ output' = perspectiveTransform(source, warpCall.corners,
                                    warpCall.outputWidth, warpCall.outputHeight)
  /\ UNCHANGED <<callVars, orderVars, source, warpCall, hullVars, scanVars>>
  /\ UNCHANGED <<approxVars, dashVars>>

NextWarp == warp

SpecWarp == InitWarp /\ [][NextWarp]_vars

\* ------------------------------------------------------------- properties

\* the call has produced its detection (step 7 has run)
Detected == pc \in {"step8", "done", "threw"}

\* the input is a raster with at least one pixel, all of one colour
UniformInput ==
  /\ imageData.kind = "image"
  /\ imageData.width > 0 /\ imageData.height > 0
  /\ \A i \in DOMAIN imageData.data : imageData.data[i] = imageData.data[0]

\* [(m,m), (W-m,m), (W-m,H-m), (m,H-m)] with m = 0.05 * min(W,H), in 1/SubPx pixel
InsetRectangle(W, H) ==
  LET m == IF W < H THEN W ELSE H
  IN <<pt(m, m), pt(SubPx * W - m, m), pt(SubPx * W - m, SubPx * H - m),
       pt(m, SubPx * H - m)>>

\* the confidence (a rational <<num, den>>) equals the number v
ConfidenceIs(confidence, v) == confidence[1] = v * confidence[2]

\* C1: the confidence of a returned ProcessingResult lies in [0, 95], and the
\* warning is present exactly when the confidence is below 50.
C1_ConfidenceRangeAndWarning ==
  pc = "done" =>
    /\ result.confidence[2] > 0
    /\ result.confidence[1] >= 0
    /\ result.confidence[1] <= 95 * result.confidence[2]
    /\ (result.warning = lowConfidenceWarning)
         <=> (result.confidence[1] < 50 * result.confidence[2])
    /\ result.warning \in {lowConfidenceWarning, Undefined}

\* a detected quadrilateral (not the fallback's 30) returned below 50 with the warning
C1_Witness ==
  /\ pc = "done"
  /\ result.confidence[1] < 50 * result.confidence[2]
  /\ ~ConfidenceIs(result.confidence, 30)
  /\ result.warning = lowConfidenceWarning

\* no contour's simplified hull has 4 vertices and an area ratio in (0.1, 0.95)
NoQualifyingContour ==
  \A i \in 1..Len(contours) :
    ~(/\ Len(approximatePolygon(convexHull(contours[i]), <<2, 100>>)) = 4
      /\ AreaAccepted(Area2(approximatePolygon(convexHull(contours[i]), <<2, 100>>)),
                      canvas.width * canvas.height))

\* C2: when no contour qualifies (or there is none), findBestQuadrilateral returns
\* the image rectangle inset by 0.05 * min(W,H) in TL, TR, BR, BL order with
\* confidence exactly 30, the call does not fail, and the result carries the warning.
C2_FallbackWhenNoQuadrilateral ==
  (Detected /\ NoQualifyingContour) =>
    /\ detection.corners = InsetRectangle(canvas.width, canvas.height)
    /\ ConfidenceIs(detection.confidence, 30)
    /\ pc # "threw"
    /\ pc = "done" =>
         /\ result.corners = InsetRectangle(canvas.width, canvas.height)
         /\ ConfidenceIs(result.confidence, 30)
         /\ result.warning = lowConfidenceWarning

\* a call resolved with contours present of which none qualifies
C2_Witness ==
  /\ pc = "done"
  /\ Len(contours) > 0
  /\ NoQualifyingContour
  /\ result.corners = InsetRectangle(canvas.width, canvas.height)

\* C3: for a raster of one colour the edge mask after doubleThreshold is zero at
\* every pixel and findContours returns no contours.
C3_UniformEdgeMaskZero ==
  (UniformInput /\ pc \in {"step6", "step7", "step8", "done", "threw"}) =>
    /\ \A i \in DOMAIN edges : edges[i] = 0
    /\ pc # "step6" => contours = <<>>

\* C4: for a raster of one colour processDocument returns the fallback inset
\* rectangle and confidence exactly 30.
C4_UniformGivesFallback ==
  (UniformInput /\ pc = "done") =>
    /\ result.corners = InsetRectangle(canvas.width, canvas.height)
    /\ ConfidenceIs(result.confidence, 30)

\* Stages 1 to 6 on a 400x300 all-black raster: every magnitude is 0, so the high
\* threshold is 0 and every pixel of the mask is 255; the one contour holds all
\* 120000 pixels and its hull is the frame, as frameContour(400, 300) has it.
BlackRaster400x300 ==
  /\ canvas = [width |-> 400, height |-> 300]
  /\ contours = <<frameContour(400, 300)>>

\* C5 as stated: a 400x300 all-black raster gives the corners (20,15), (380,15),
\* (380,285), (20,285), confidence 30 and the warning.
C5_Stated ==
  (BlackRaster400x300 /\ pc = "done") =>
    /\ result.corners = <<pt(20 * SubPx, 15 * SubPx), pt(380 * SubPx, 15 * SubPx),
                          pt(380 * SubPx, 285 * SubPx), pt(20 * SubPx, 285 * SubPx)>>
    /\ ConfidenceIs(result.confidence, 30)
    /\ result.warning = lowConfidenceWarning

\* C5 amended: a 400x300 all-black raster gives the corners (15,15), (385,15),
\* (385,285), (15,285) in that order, confidence 30 and the warning.
C5_BlackRasterCorners ==
  /\ (BlackRaster400x300 /\ Detected) => pc # "threw"
  /\ (BlackRaster400x300 /\ pc = "done") =>
       /\ result.corners = <<pt(15 * SubPx, 15 * SubPx), pt(385 * SubPx, 15 * SubPx),
                             pt(385 * SubPx, 285 * SubPx), pt(15 * SubPx, 285 * SubPx)>>
       /\ ConfidenceIs(result.confidence, 30)
       /\ result.warning = lowConfidenceWarning

\* the call on the 400x300 all-black raster has resolved
C5_Witness ==
  /\ BlackRaster400x300
  /\ pc = "done"
  /\ promise = "resolved"
  /\ ConfidenceIs(result.confidence, 30)

\* C6: every call eventually resolves or rejects.  In a state from which the call
\* can take no further step, the promise is settled.
C6_SettlesOrCanStep ==
  promise \in {"resolved", "rejected"} \/ ENABLED Next

\* the input is a zero-area raster or cannot be decoded
Malformed ==
  imageData.kind = "undecodable" \/ imageData.width = 0 \/ imageData.height = 0

\* C7: on malformed input the call fails with an error the caller observes: once
\* loading is over the promise is rejected, and no result is produced.
C7_MalformedIsRejected ==
  (Malformed /\ pc \notin {"idle", "loading"}) => promise = "rejected"

\* C8: orderCorners(orderCorners(c)) = orderCorners(c) for every list c of 4 points.
C8_OrderCornersIdempotent ==
  Len(reordered) >= 3 => reordered[3] = reordered[2]

\* the call's quadrilateral is the whole source rectangle at the source's size
IdentityCall ==
  /\ warpCall.corners = rectCorners(0, 0, source.width * SubPx, source.height * SubPx)
  /\ warpCall.outputWidth = source.width
  /\ warpCall.outputHeight = source.height

\* C9: with the identity quadrilateral and an output of the source's size every
\* channel of every output pixel, last row and column included, is within 1 of
\* the source's.
C9_IdentityWithinOne ==
  (output # NoOutput /\ IdentityCall) =>
    \A i \in DOMAIN output : \A c \in 1..4 :
      /\ output[i][c] - source.data[i][c] <= 1
      /\ source.data[i][c] - output[i][c] <= 1

\* the quadrilateral the selection settled on, in 1/SubPx pixel, before ordering
SelectedQuad ==
  IF Len(bestOf(contours, canvas.width, canvas.height).quad) = 4
  THEN [k \in 1..4 |-> ToSub(bestOf(contours, canvas.width, canvas.height).quad[k])]
  ELSE fallbackQuad(canvas.width, canvas.height)

\* a is b with its elements in some order
IsPermutation(a, b) ==
  /\ Len(a) = Len(b)
  /\ \E f \in [1..Len(a) -> 1..Len(a)] :
       /\ \A j, k \in 1..Len(a) : j # k => f[j] # f[k]
       /\ \A k \in 1..Len(a) : a[k] = b[f[k]]

MaxThrWidth == 6

thresholdCanvases == {[width |-> w, height |-> 3] : w \in 3..MaxThrWidth}

\* squared magnitudes 0, 1 and 100: against a maximum of 100 the value 1 lies
\* between the low and the high threshold
magnitudes == {0, 1, 100}

\* nonMaxSuppression leaves the border of its output 0
magnitudeMaps(w, h) ==
  {[i \in 0..(w * h - 1) |-> IF Interior(i, w, h) THEN m[i % w] ELSE 0] :
     m \in [1..(w - 2) -> magnitudes]}

InitThreshold ==
  /\ imageData = None
  /\ pc = "step5"
  /\ promise = "pending"
  /\ canvas \in thresholdCanvases
  /\ thinEdges \in magnitudeMaps(canvas.width, canvas.height)
  /\ imgData = None /\ gray = None /\ blurred = None /\ sobel = None
  /\ edges = None /\ contours = None
  /\ detection = None
  /\ result = None
  /\ orderUnused /\ warpUnused /\ hullUnused /\ scanUnused /\ approxUnused /\ dashUnused

NextThreshold == step5Threshold

SpecThreshold == InitThreshold /\ [][NextThreshold]_vars

\* ------------------------------------------------- convexHull on its own

\* point lists hold up to MaxHullPoints distinct points
MaxHullPoints == 4

hullGrid == {pt(x, y) : x \in 0..2, y \in 0..2}

\* a contour never holds a pixel twice: the lists are of distinct points
pointLists ==
  UNION {{l \in [1..n -> hullGrid] : \A i, j \in 1..n : i # j => l[i] # l[j]} :
           n \in 0..MaxHullPoints}

InitHull ==
  /\ points \in pointLists
  /\ hulls = <<>>
  /\ callUnused /\ orderUnused /\ warpUnused /\ scanUnused /\ approxUnused /\ dashUnused

hullCall ==
  /\ Len(hulls) = 0
  /\ hulls' = <<convexHull(points)>>
  /\ UNCHANGED <<callVars, orderVars, warpVars, points, scanVars>>
  /\ UNCHANGED <<approxVars, dashVars>>

NextHull == hullCall

SpecHull == InitHull /\ [][NextHull]_vars

\* ------------------------------------------------- findContours on its own

\* The call of step 6 with the edge mask given directly.  The masks are MaxMaskWidth
\* wide and 9 high: a shape in rows 0 to 4, a shape in rows 6 to 8 and at most one
\* pixel in row 5 that may link them, with components of 50 and of 51 pixels.
MaxMaskWidth == 13

\* the pixels <<x, y>> of the bw by bh rectangle whose first pixel is (x0, y0)
block(x0, y0, bw, bh) == {<<x, y>> : x \in x0..(x0 + bw - 1), y \in y0..(y0 + bh - 1)}

topShapes(w) ==
  {{},
   block(0, 0, 10, 5),
   block(0, 0, 10, 5) \cup {<<10, 4>>},
   block(0, 0, 5, 5) \cup block(6, 0, 5, 5),
   block(0, 0, w, 5) \ block(1, 1, w - 2, 3),
   block(0, 0, w, 5)}

linkShapes(w) == {{}} \cup {{<<x, 5>>} : x \in {0, 5, 10, w - 1}}

bottomShapes(w) ==
  {{},
   block(0, 6, w, 3),
   block(6, 6, w - 6, 3),
   {<<x, 6 + (x % 2)>> : x \in 0..(w - 1)},
   block(0, 8, w, 1)}

\* doubleThreshold returns 0 and 255 only
maskOf(w, h, shape) ==
  [i \in 0..(w * h - 1) |-> IF <<i % w, i \div w>> \in shape THEN 255 ELSE 0]

masks(w, h) ==
  {maskOf(w, h, t \cup l \cup b) :
     t \in topShapes(w), l \in linkShapes(w), b \in bottomShapes(w)}

InitContours ==
  /\ imageData = None
  /\ pc = "step6"
  /\ promise = "pending"
  /\ canvas = [width |-> MaxMaskWidth, height |-> 9]
  /\ edges \in masks(canvas.width, canvas.height)
  /\ imgData = None /\ gray = None /\ blurred = None /\ sobel = None
  /\ thinEdges = None /\ contours = None
  /\ detection = None
  /\ result = None
  /\ orderUnused /\ warpUnused /\ hullUnused /\ scanUnused /\ approxUnused /\ dashUnused

NextContours == step6Contours

SpecContours == InitContours /\ [][NextContours]_vars

\* --------------------------------------------- findContours step by step

\* The scan loop and traceContour's while loop one turn at a time, on every
\* binary mask of the rasters 2 high and up to MaxScanWidth wide and on a few
\* masks with components of more than 50 pixels.
MaxScanWidth == 3

smallScans ==
  UNION {{[canvas |-> [width |-> w, height |-> 2], edges |-> m] :
            m \in [0..(2 * w - 1) -> {0, 255}]} : w \in 1..MaxScanWidth}

largeShapes(w) ==
  {block(0, 0, 5, 5) \cup block(6, 0, 5, 5) \cup {<<5, 5>>} \cup block(0, 8, w, 1),
   block(0, 0, 10, 5) \cup block(0, 6, w, 3),
   block(0, 0, w, 4) \cup block(0, 5, w, 4),
   block(0, 0, w, 5) \cup {<<0, 5>>} \cup block(0, 6, w, 3),
   {<<0, 0>>} \cup block(0, 2, w, 4) \cup block(0, 7, w, 2)}

largeScans ==
  {[canvas |-> [width |-> MaxMaskWidth, height |-> 9],
    edges |-> maskOf(MaxMaskWidth, 9, shape)] : shape \in largeShapes(MaxMaskWidth)}

InitScan ==
  /\ imageData = None
  /\ pc = "scan"
  /\ promise = "pending"
  /\ \E call \in smallScans \cup largeScans :
       /\ canvas = call.canvas
       /\ edges = call.edges
  /\ imgData = None /\ gray = None /\ blurred = None /\ sobel = None
  /\ thinEdges = None
  /\ contours = <<>>
  /\ detection = None
  /\ result = None
  /\ scanIdx = 0
  /\ trace = [stack |-> <<>>, visited |-> [i \in DOMAIN edges |-> 0], contour |-> <<>>]
  /\ traced = <<>>
  /\ orderUnused /\ warpUnused /\ hullUnused /\ approxUnused /\ dashUnused

\* the scan loop at a pixel that is 255 and unvisited: traceContour is entered
scanSeed ==
  /\ pc = "scan"
  /\ scanIdx < canvas.width * canvas.height
  /\ edges[scanIdx] = 255 /\ trace.visited[scanIdx] = 0
  /\ trace' = startTrace(trace.visited, scanIdx % canvas.width, scanIdx \div canvas.width)
  /\ pc' = "trace"
  /\ UNCHANGED <<imageData, promise, locals, result, scanIdx, traced>>
  /\ UNCHANGED <<orderVars, warpVars, hullVars>>
  /\ UNCHANGED <<approxVars, dashVars>>

\* the scan loop at any other pixel
scanSkip ==
  /\ pc = "scan"
  /\ scanIdx < canvas.width * canvas.height
  /\ ~(edges[scanIdx] = 255 /\ trace.visited[scanIdx] = 0)
  /\ scanIdx' = scanIdx + 1
  /\ UNCHANGED <<imageData, pc, promise, locals, result, trace, traced>>
  /\ UNCHANGED <<orderVars, warpVars, hullVars>>
  /\ UNCHANGED <<approxVars, dashVars>>

\* one turn of traceContour's while loop
traceStep ==
  /\ pc = "trace"
  /\ Len(trace.stack) > 0
  /\ trace' = traceTurn(trace, edges, canvas.width, canvas.height)
  /\ UNCHANGED <<imageData, pc, promise, locals, result, scanIdx, traced>>
  /\ UNCHANGED <<orderVars, warpVars, hullVars>>
  /\ UNCHANGED <<approxVars, dashVars>>

\* traceContour returns; the contour is kept if it has more than MinContour points
traceReturn ==
  /\ pc = "trace"
  /\ Len(trace.stack) = 0
  /\ traced' = Append(traced, trace.contour)
  /\ contours' = IF Len(trace.contour) > MinContour
                 THEN Append(contours, trace.contour)
                 ELSE contours
  /\ scanIdx' = scanIdx + 1
  /\ pc' = "scan"
  /\ UNCHANGED <<imageData, promise, canvas, imgData, gray, blurred, sobel, thinEdges,
                 edges, detection, result, trace>>
  /\ UNCHANGED <<orderVars, warpVars, hullVars>>
  /\ UNCHANGED <<approxVars, dashVars>>

\* the scan loop ends and findContours returns contours
scanReturn ==
  /\ pc = "scan"
  /\ scanIdx = canvas.width * canvas.height
  /\ pc' = "scanned"
  /\ UNCHANGED <<imageData, promise, locals, result, scanVars>>
  /\ UNCHANGED <<orderVars, warpVars, hullVars>>
  /\ UNCHANGED <<approxVars, dashVars>>

NextScan ==
  \/ scanSeed
  \/ scanSkip
  \/ traceStep
  \/ traceReturn
  \/ scanReturn

SpecScan == InitScan /\ [][NextScan]_vars

\* findContours runs to completion on one thread: a while loop that can take a
\* turn takes it
SpecScanFair == SpecScan /\ WF_vars(traceStep)

\* ------------------------------------------- approximatePolygon on its own

\* hulls hold up to MaxApproxPoints distinct points
MaxApproxPoints == 5

\* points 1 and 30 pixels apart: a vertex 1 pixel off a chord lies within 2% of
\* the perimeter, a vertex 30 pixels off does not
approxGrid == {pt(x, y) : x \in {0, 30, 60}, y \in {0, 1}} \cup {pt(30, 40)}

\* convexHull returns points of a contour, which holds no pixel twice
approxHulls ==
  UNION {{l \in [1..n -> approxGrid] : \A i, j \in 1..n : i # j => l[i] # l[j]} :
           n \in 0..MaxApproxPoints}

InitApprox ==
  /\ approxHull \in approxHulls
  /\ approximated = <<>>
  /\ callUnused /\ orderUnused /\ warpUnused /\ hullUnused /\ scanUnused /\ dashUnused

\* approximatePolygon(hull, 0.02), as findBestQuadrilateral calls it
approxCall ==
  /\ Len(approximated) = 0
  /\ approximated' = <<approximatePolygon(approxHull, <<2, 100>>)>>
  /\ UNCHANGED <<callVars, orderVars, warpVars, hullVars, scanVars, approxHull, dashVars>>

NextApprox == approxCall

SpecApprox == InitApprox /\ [][NextApprox]_vars

\* ------------------------------------------------------------ the Dashboard

\* handleFileSelect calls made in one session
MaxRuns == 2

\* the files dropped, in turn: a PDF whose page is found, and a photo whose page
\* is found with low confidence or not at all, so that its result carries a
\* warning
Files ==
  <<[type |-> "application/pdf", warns |-> FALSE],
    [type |-> "image/jpeg", warns |-> TRUE]>>

\* the file of run r
FileOf(r) == Files[((r - 1) % Len(Files)) + 1]

\* a state value that is null or undefined
Null == [kind |-> "null", of |-> 0]

\* the data URL read from the file of run r
DataUrl(r) == [kind |-> "data", of |-> r]

\* result.processedImageData, result.confidence and result.warning of run r
ProcessedData(r) == [kind |-> "processed", of |-> r]

Confidence(r) == [kind |-> "confidence", of |-> r]

Warning(r) == [kind |-> "warning", of |-> r]

\* the note written when the result carries no warning
ConfidenceNote(r) == [kind |-> "note", of |-> r]

\* the signed URLs of the two stored objects of document id
OriginalUrl(id) == [kind |-> "originalUrl", of |-> id]

ProcessedUrl(id) == [kind |-> "processedUrl", of |-> id]

\* a row of public.documents; user_id, filename and the timestamps follow from id
Row(id, status, originalUrl, processedUrl, notes) ==
  [id |-> id, status |-> status, original_url |-> originalUrl,
   processed_url |-> processedUrl, processing_notes |-> notes]

\* currentDocument when it is null
NoDocument == Row(0 - 1, "none", Null, Null, Null)

\* a document completed in an earlier session
EarlierId == 0

EarlierRow ==
  Row(EarlierId, "completed", OriginalUrl(EarlierId), ProcessedUrl(EarlierId),
      ConfidenceNote(EarlierId))

\* gen_random_uuid(): the row inserted by run r gets an id no other row has
IdOf(r) == r

\* the state of the component after its first render
InitialUi ==
  [processingState |-> "idle", progress |-> 0, currentDocument |-> NoDocument,
   originalImageData |-> Null, processedImageData |-> Null,
   confidence |-> Null, warning |-> Null]

NoRemoval == [at |-> "idle", id |-> 0 - 1]

\* the four branches of the main panel
ShowsUploadZone ==
  ui.processingState = "idle" /\ ui.currentDocument = NoDocument

ShowsProgress == ui.processingState \in {"uploading", "processing"}

ShowsFailure == ui.processingState = "failed"

ShowsResult ==
  /\ \/ ui.processingState = "completed"
     \/ ui.processingState = "idle" /\ ui.currentDocument # NoDocument
  /\ ui.originalImageData # Null
  /\ ui.processedImageData # Null

InitDash ==
  /\ ui = InitialUi
  /\ table = [id \in {EarlierId} |-> EarlierRow]
  /\ runs = <<>>
  /\ removal = NoRemoval
  /\ documents = {}
  /\ callUnused /\ orderUnused /\ warpUnused /\ hullUnused /\ scanUnused /\ approxUnused

\* run r moves to its next await
moved(r, at) == [runs EXCEPT ![r].at = at]

\* the catch block of handleFileSelect: the state is set, no row is written
caught(r) ==
  /\ ui' = [ui EXCEPT !.processingState = "failed"]
  /\ runs' = moved(r, "failed")
  /\ UNCHANGED <<table, removal, documents>>

\* a file dropped on the upload zone: the synchronous part up to the first await
handleFileSelect ==
  /\ ShowsUploadZone
  /\ Len(runs) < MaxRuns
  /\ \E file \in {FileOf(Len(runs) + 1)} :
       /\ ui' = [InitialUi EXCEPT
                  !.processingState = "uploading",
                  !.progress = IF file.type = "application/pdf" THEN 20 ELSE 10]
       /\ runs' = Append(runs, [at |-> IF file.type = "application/pdf"
                                       THEN "pdfToImage" ELSE "readAsDataURL",
                                inserted |-> FALSE,
                                original_url |-> Null, processed_url |-> Null])
  /\ UNCHANGED <<table, removal, documents>>
  /\ UNCHANGED <<callVars, orderVars, warpVars, hullVars, scanVars, approxVars>>

\* the file is read: the image is shown and the insert is sent
fileRead ==
  /\ \E r \in 1..Len(runs) :
       /\ runs[r].at \in {"pdfToImage", "readAsDataURL"}
       /\ ui' = [ui EXCEPT !.originalImageData = DataUrl(r), !.progress = 40]
       /\ runs' = moved(r, "insert")
  /\ UNCHANGED <<table, removal, documents>>
  /\ UNCHANGED <<callVars, orderVars, warpVars, hullVars, scanVars, approxVars>>

\* pdfToImage rejects
pdfRejected ==
  /\ \E r \in 1..Len(runs) : runs[r].at = "pdfToImage" /\ caught(r)
  /\ UNCHANGED <<callVars, orderVars, warpVars, hullVars, scanVars, approxVars>>

\* the insert returns the new row, with status 'processing'
docInserted ==
  /\ \E r \in 1..Len(runs) :
       /\ runs[r].at = "insert"
       /\ table' = (IdOf(r) :> Row(IdOf(r), "processing", Null, Null, Null)) @@ table
       /\ ui' = [ui EXCEPT !.progress = 50, !.processingState = "processing"]
       /\ runs' = [runs EXCEPT ![r].at = "uploadOriginal", ![r].inserted = TRUE]
  /\ UNCHANGED <<removal, documents>>
  /\ UNCHANGED <<callVars, orderVars, warpVars, hullVars, scanVars, approxVars>>

\* the insert returns docError
docError ==
  /\ \E r \in 1..Len(runs) : runs[r].at = "insert" /\ caught(r)
  /\ UNCHANGED <<callVars, orderVars, warpVars, hullVars, scanVars, approxVars>>

\* the original is stored and processDocument is called
originalUploaded ==
  /\ \E r \in 1..Len(runs) :
       /\ runs[r].at = "uploadOriginal"
       /\ ui' = [ui EXCEPT !.progress = 60]
       /\ runs' = moved(r, "processDocument")
  /\ UNCHANGED <<table, removal, documents>>
  /\ UNCHANGED <<callVars, orderVars, warpVars, hullVars, scanVars, approxVars>>

uploadOriginalError ==
  /\ \E r \in 1..Len(runs) : runs[r].at = "uploadOriginal" /\ caught(r)
  /\ UNCHANGED <<callVars, orderVars, warpVars, hullVars, scanVars, approxVars>>

\* result.warning of run r
warningOf(r) == IF FileOf(r).warns THEN Warning(r) ELSE Null

\* processDocument resolves
documentProcessed ==
  /\ \E r \in 1..Len(runs) :
       /\ runs[r].at = "processDocument"
       /\ ui' = [ui EXCEPT !.progress = 80,
                           !.processedImageData = ProcessedData(r),
                           !.confidence = Confidence(r),
                           !.warning = warningOf(r)]
       /\ runs' = moved(r, "uploadProcessed")
  /\ UNCHANGED <<table, removal, documents>>
  /\ UNCHANGED <<callVars, orderVars, warpVars, hullVars, scanVars, approxVars>>

\* the processed image is stored and the signed URLs are asked for
processedUploaded ==
  /\ \E r \in 1..Len(runs) :
       /\ runs[r].at = "uploadProcessed"
       /\ ui' = [ui EXCEPT !.progress = 90]
       /\ runs' = moved(r, "createSignedUrl")
  /\ UNCHANGED <<table, removal, documents>>
  /\ UNCHANGED <<callVars, orderVars, warpVars, hullVars, scanVars, approxVars>>

uploadProcessedError ==
  /\ \E r \in 1..Len(runs) : runs[r].at = "uploadProcessed" /\ caught(r)
  /\ UNCHANGED <<callVars, orderVars, warpVars, hullVars, scanVars, approxVars>>

\* both createSignedUrl calls return, both with a URL or, the storage service
\* failing, both without: an error leaves signedUrl undefined and is not looked
\* at; the update is sent
urlsSigned ==
  /\ \E r \in 1..Len(runs) : \E signed \in BOOLEAN :
       /\ runs[r].at = "createSignedUrl"
       /\ runs' = [runs EXCEPT
                    ![r].at = "update",
                    ![r].original_url = IF signed THEN OriginalUrl(IdOf(r)) ELSE Null,
                    ![r].processed_url = IF signed THEN ProcessedUrl(IdOf(r)) ELSE Null]
  /\ UNCHANGED <<ui, table, removal, documents>>
  /\ UNCHANGED <<callVars, orderVars, warpVars, hullVars, scanVars, approxVars>>

\* the row as the update of run r writes it
updatedDoc(r) ==
  Row(IdOf(r), "completed", runs[r].original_url, runs[r].processed_url,
      IF warningOf(r) # Null THEN warningOf(r) ELSE ConfidenceNote(r))

\* the update returns the row it changed
docUpdated ==
  /\ \E r \in 1..Len(runs) :
       /\ runs[r].at = "update"
       /\ IdOf(r) \in DOMAIN table
       /\ table' = [table EXCEPT ![IdOf(r)] = updatedDoc(r)]
       /\ ui' = [ui EXCEPT !.currentDocument = updatedDoc(r), !.progress = 100,
                           !.processingState = "completed"]
       /\ runs' = moved(r, "completed")
  /\ UNCHANGED <<removal, documents>>
  /\ UNCHANGED <<callVars, orderVars, warpVars, hullVars, scanVars, approxVars>>

\* the update returns updateError, as it does when the row is gone
updateError ==
  /\ \E r \in 1..Len(runs) : runs[r].at = "update" /\ caught(r)
  /\ UNCHANGED <<callVars, orderVars, warpVars, hullVars, scanVars, approxVars>>

\* a card of the sidebar is clicked
handleDocumentClick ==
  /\ \E d \in documents :
       ui' = IF d.original_url # Null /\ d.processed_url # Null
             THEN [ui EXCEPT !.currentDocument = d, !.processingState = "idle",
                             !.originalImageData = d.original_url,
                             !.processedImageData = d.processed_url,
                             !.confidence = Null,
                             !.warning = d.processing_notes]
             ELSE [ui EXCEPT !.currentDocument = d, !.processingState = "idle"]
  /\ UNCHANGED <<table, runs, removal, documents>>
  /\ UNCHANGED <<callVars, orderVars, warpVars, hullVars, scanVars, approxVars>>

\* New Scan in the result view, or Try Again in the failure panel
handleNewScan ==
  /\ ShowsResult \/ ShowsFailure
  /\ ui' = InitialUi
  /\ UNCHANGED <<table, runs, removal, documents>>
  /\ UNCHANGED <<callVars, orderVars, warpVars, hullVars, scanVars, approxVars>>

\* Delete in the result view: the stored objects are removed and the delete of
\* the row of the currentDocument of that render is sent
handleDelete ==
  /\ ShowsResult
  /\ ui.currentDocument # NoDocument
  /\ removal = NoRemoval
  /\ removal' = [at |-> "delete", id |-> ui.currentDocument.id]
  /\ UNCHANGED <<ui, table, runs, documents>>
  /\ UNCHANGED <<callVars, orderVars, warpVars, hullVars, scanVars, approxVars>>

\* the delete returns without error
docDeleted ==
  /\ removal.at = "delete"
  /\ table' = [id \in DOMAIN table \ {removal.id} |-> table[id]]
  /\ ui' = [ui EXCEPT !.currentDocument = NoDocument,
                      !.originalImageData = Null,
                      !.processedImageData = Null]
  /\ removal' = NoRemoval
  /\ UNCHANGED <<runs, documents>>
  /\ UNCHANGED <<callVars, orderVars, warpVars, hullVars, scanVars, approxVars>>

\* the delete returns an error: a toast, no state is set
deleteError ==
  /\ removal.at = "delete"
  /\ removal' = NoRemoval
  /\ UNCHANGED <<ui, table, runs, documents>>
  /\ UNCHANGED <<callVars, orderVars, warpVars, hullVars, scanVars, approxVars>>

\* the list is read again: on mount, by the refresh button, after a completed
\* run and after a delete
fetchDocuments ==
  /\ documents' = {table[id] : id \in DOMAIN table}
  /\ documents' # documents
  /\ UNCHANGED <<ui, table, runs, removal>>
  /\ UNCHANGED <<callVars, orderVars, warpVars, hullVars, scanVars, approxVars>>

NextDash ==
  \/ handleFileSelect \/ fileRead \/ pdfRejected
  \/ docInserted \/ docError
  \/ originalUploaded \/ uploadOriginalError
  \/ documentProcessed
  \/ processedUploaded \/ uploadProcessedError
  \/ urlsSigned
  \/ docUpdated \/ updateError
  \/ handleDocumentClick \/ handleNewScan
  \/ handleDelete \/ docDeleted \/ deleteError
  \/ fetchDocuments

SpecDash == InitDash /\ [][NextDash]_vars

\* ---------------------------------------------- properties of single steps

\* the blurred buffer exists (step 2 has run)
Blurred == pc \in {"step3", "step4", "step5", "step6", "step7", "step8", "done"}

\* the edge mask exists (step 5 has run)
Thresholded == pc \in {"step6", "step7", "step8", "done"}

\* C12: gaussianBlur leaves the border unchanged: every pixel of row 0, row
\* height-1, column 0 and column width-1 of the output equals the input's.
C12_BlurBorderPassedThrough ==
  Blurred =>
    \A i \in DOMAIN blurred :
      ~Interior(i, canvas.width, canvas.height) => blurred[i] = gray[i]

\* the threshold step classifies pixel i weak: low <= magnitude < high
Weak(i) ==
  /\ ~AtLeastHigh(thinEdges[i], MaxOf(thinEdges))
  /\ AtLeastLow(thinEdges[i], MaxOf(thinEdges))

\* the threshold step classifies pixel i strong: magnitude >= high
Strong(i) == AtLeastHigh(thinEdges[i], MaxOf(thinEdges))

\* C13: every pixel of the edge mask handed to findContours is 0 or 255, border
\* pixels included: no provisional 128 survives doubleThreshold.
C13_MaskIsBinary ==
  Thresholded => \A i \in DOMAIN edges : edges[i] \in {0, 255}

\* a mask in which the threshold step had classified some pixel weak
C13_Witness ==
  /\ Thresholded
  /\ \E i \in DOMAIN thinEdges : Weak(i)
  /\ \A i \in DOMAIN edges : edges[i] \in {0, 255}

\* the 8 neighbours of pixel i and i itself, as the hysteresis loop reads them
Around(i) == {i + dy * canvas.width + dx : dy \in -1..1, dx \in -1..1}

\* C14: the hysteresis pass decides every interior weak pixel from the threshold
\* step's classification alone: it ends 255 exactly when one of its 8 neighbours
\* was classified strong, whatever was promoted earlier in the pass.
C14_PromotedOnlyByStrong ==
  Thresholded =>
    \A i \in DOMAIN edges :
      (Interior(i, canvas.width, canvas.height) /\ Weak(i)) =>
        (edges[i] = 255 <=> \E j \in Around(i) : Strong(j))

\* convexHull has returned hull for points
Hulled == Len(hulls) = 1

\* p lies on the closed segment from a to b
OnSegment(p, a, b) ==
  /\ Cross(a, b, p) = 0
  /\ Min2(a.x, b.x) <= p.x /\ p.x <= Max2(a.x, b.x)
  /\ Min2(a.y, b.y) <= p.y /\ p.y <= Max2(a.y, b.y)

\* p lies in the closed triangle a, b, c of non-zero area
InTriangle(p, a, b, c) ==
  /\ Cross(a, b, c) # 0
  /\ \/ Cross(a, b, p) >= 0 /\ Cross(b, c, p) >= 0 /\ Cross(c, a, p) >= 0
     \/ Cross(a, b, p) <= 0 /\ Cross(b, c, p) <= 0 /\ Cross(c, a, p) <= 0

\* p lies inside or on the polygon, read generously: in the convex region its
\* vertices span
InsideOrOn(p, polygon) ==
  \E i, j \in DOMAIN polygon :
    \/ OnSegment(p, polygon[i], polygon[j])
    \/ \E k \in DOMAIN polygon : InTriangle(p, polygon[i], polygon[j], polygon[k])

\* C15: for a list of at least 3 points every vertex convexHull returns is an
\* input point and every input point lies inside or on the returned polygon.
C15_HullEnclosesInput ==
  (Hulled /\ Len(points) >= 3) =>
    /\ \A i \in DOMAIN hulls[1] : \E j \in DOMAIN points : hulls[1][i] = points[j]
    /\ \A j \in DOMAIN points : InsideOrOn(points[j], hulls[1])

\* the pivot: the point with the lowest y and, among those, the lowest x
IsPivot(p, ps) ==
  \A j \in DOMAIN ps : p.y < ps[j].y \/ (p.y = ps[j].y /\ p.x <= ps[j].x)

\* every three cyclically consecutive vertices turn left, the wrap-around included
StrictlyConvex(polygon) ==
  LET n == Len(polygon)
  IN \A i \in 1..n :
       Cross(polygon[i], polygon[(i % n) + 1], polygon[((i + 1) % n) + 1]) > 0

\* C16: for at least 3 points convexHull's result starts at the pivot and is
\* strictly convex; fewer than 3 points are returned unchanged.
C16_HullFromPivotStrictlyConvex ==
  Hulled =>
    IF Len(points) < 3 THEN hulls[1] = points
    ELSE IsPivot(hulls[1][1], points) /\ StrictlyConvex(hulls[1])

\* findContours has returned
Scanned == pc \in {"step7", "step8", "done"}

\* the indices of the 255-valued pixels
On(mask) == {i \in DOMAIN mask : mask[i] = 255}

\* pixels i and j are 8-neighbours in a raster w wide
Adjacent(i, j, w) ==
  /\ i # j
  /\ Abs((i % w) - (j % w)) <= 1
  /\ Abs((i \div w) - (j \div w)) <= 1

\* the pixels of on reachable from S through 8-neighbours; F is what was added last
RECURSIVE Grow(_, _, _, _)
Grow(S, F, on, w) ==
  LET new == {j \in on \ S : \E i \in F : Adjacent(i, j, w)}
  IN IF new = {} THEN S ELSE Grow(S \cup new, new, on, w)

\* the maximal 8-connected component of on that holds pixel i
ComponentOf(i, on, w) == Grow({i}, {i}, on, w)

\* the indices of the pixels a contour records
PixelsOf(contour, w) == {contour[n].y * w + contour[n].x : n \in DOMAIN contour}

\* the index of a contour's first pixel
FirstOf(contour, w) == contour[1].y * w + contour[1].x

\* contour is one whole component of on, each pixel once, more than 50 of them,
\* beginning at the component's first pixel in row-major order
IsLargeComponent(contour, pixels, component) ==
  /\ pixels = component
  /\ Len(contour) = Cardinality(component)
  /\ Len(contour) > 50

ContoursAreLargeComponents(cs, on, w) ==
  /\ \A k \in DOMAIN cs :
       /\ IsLargeComponent(cs[k], PixelsOf(cs[k], w), ComponentOf(FirstOf(cs[k], w), on, w))
       /\ \A j \in PixelsOf(cs[k], w) : FirstOf(cs[k], w) <= j
  /\ \A k \in 1..(Len(cs) - 1) : FirstOf(cs[k], w) < FirstOf(cs[k + 1], w)
  /\ \A i \in on \ UNION {PixelsOf(cs[k], w) : k \in DOMAIN cs} :
       Cardinality(ComponentOf(i, on, w)) <= 50

Scanning == pc \in {"scan", "trace", "scanned"}

RECURSIVE Flatten(_)
Flatten(lists) == IF Len(lists) = 0 THEN <<>> ELSE Head(lists) \o Flatten(Tail(lists))

\* every point recorded so far: the contours traceContour has returned, kept or
\* discarded, and the contour of the call under way
Recorded == Flatten(traced) \o (IF pc = "trace" THEN trace.contour ELSE <<>>)

NoRepeats(list) == Cardinality({list[n] : n \in DOMAIN list}) = Len(list)

InBounds(p) == 0 <= p.x /\ p.x < canvas.width /\ 0 <= p.y /\ p.y < canvas.height

\* the step-by-step scan returns what findContours returns
ScanRefinesFindContours ==
  pc = "scanned" => contours = findContours(edges, canvas.width, canvas.height)

\* C18: across one findContours scan no pixel is recorded more than once, within
\* a contour or across contours, the discarded ones included, so no pixel of a
\* discarded component is traced again; and every recorded point is in bounds.
C18_NoPixelRecordedTwice ==
  Scanning =>
    /\ NoRepeats(Recorded)
    /\ \A n \in DOMAIN Recorded : InBounds(Recorded[n])
    /\ \A k \in DOMAIN contours : \E n \in DOMAIN traced : contours[k] = traced[n]

\* a finished scan that kept a contour and discarded a component traced before
\* it and one traced after it
C18_Witness ==
  /\ pc = "scanned"
  /\ Len(contours) = 1
  /\ Len(traced) >= 3
  /\ Len(traced[1]) <= 50 /\ Len(traced[Len(traced)]) <= 50
  /\ NoRepeats(Recorded)

\* C19: the flood fill terminates: once traceContour is entered its stack
\* eventually becomes empty, since a turn pushes 8 neighbours only when it marks
\* a pixel that was not yet visited, and otherwise only pops.
C19_TraceTerminates ==
  /\ (pc = "trace") ~> (pc = "trace" /\ Len(trace.stack) = 0)
  /\ [][(pc = "trace" /\ pc' = "trace") =>
          \/ /\ trace'.stack = SubSeq(trace.stack, 1, Len(trace.stack) - 1)
             /\ trace'.visited = trace.visited
          \/ /\ Len(trace'.stack) = Len(trace.stack) + 7
             /\ \E i \in DOMAIN trace.visited :
                  /\ trace.visited[i] = 0
                  /\ trace'.visited = [trace.visited EXCEPT ![i] = 1]]_vars

\* a trace that recorded several pixels and has emptied its stack
C19_Witness ==
  /\ pc = "trace"
  /\ Len(trace.stack) = 0
  /\ Len(trace.contour) > 50

\* the simplified hull of the k-th contour: approximatePolygon(convexHull(.), 0.02)
PolygonOf(k) == approximatePolygon(convexHull(contours[k]), <<2, 100>>)

\* polygon has exactly 4 vertices and 0.1 < r < 0.95 for its area ratio
\* r = area2 / (2 * width * height)
Qualifies(polygon) ==
  /\ Len(polygon) = 4
  /\ 10 * Area2(polygon) > 2 * canvas.width * canvas.height
  /\ 100 * Area2(polygon) < 95 * 2 * canvas.width * canvas.height

\* the returned corners are polygon's vertices in some order
Returned(polygon) ==
  /\ Len(polygon) = 4
  /\ IsPermutation(detection.corners, [n \in 1..4 |-> ToSub(polygon[n])])

\* polygon k is the best: none has a greater ratio, none before it an equal one
IsBest(k, polygons) ==
  /\ Qualifies(polygons[k])
  /\ \A j \in DOMAIN polygons :
       Qualifies(polygons[j]) =>
         /\ Area2(polygons[j]) <= Area2(polygons[k])
         /\ j < k => Area2(polygons[j]) < Area2(polygons[k])

\* the best qualifying polygon is returned with confidence r * 100, held as the
\* fraction <<100 * area2, 2 * width * height>>; no rejected polygon is returned
BestIsReturned(polygons) ==
  /\ (\E k \in DOMAIN polygons : Qualifies(polygons[k])) =>
       \E k \in DOMAIN polygons :
         /\ IsBest(k, polygons)
         /\ Returned(polygons[k])
         /\ detection.confidence = <<100 * Area2(polygons[k]), 2 * canvas.width * canvas.height>>
  /\ \A j \in DOMAIN polygons :
       ~Qualifies(polygons[j]) => ~Returned(polygons[j])

\* C20: when some contour's simplified hull has 4 vertices and 0.1 < r < 0.95,
\* findBestQuadrilateral returns a reordering of the qualifying polygon with the
\* greatest r, the earliest among equals, with confidence r * 100; a polygon of
\* another vertex count or with r <= 0.1 or r >= 0.95 is never returned.
C20_BestQualifyingReturned ==
  Detected => BestIsReturned([k \in DOMAIN contours |-> PolygonOf(k)])

\* two qualifying polygons of equal ratio and different vertices: the first is returned
C20_Witness ==
  /\ Detected
  /\ Len(contours) = 2
  /\ Qualifies(PolygonOf(1)) /\ Qualifies(PolygonOf(2))
  /\ Area2(PolygonOf(1)) = Area2(PolygonOf(2))
  /\ Returned(PolygonOf(1)) /\ ~Returned(PolygonOf(2))

\* the magnitude and direction buffers exist (step 3 has run)
Gradients == pc \in {"step4", "step5", "step6", "step7", "step8", "done"}

\* the thinned buffer exists (step 4 has run)
Thinned == pc \in {"step5", "step6", "step7", "step8", "done"}

\* the band the direction selects by its angle in [0, 180] degrees; 180 degrees
\* itself (gy = 0, gx < 0) belongs to 157.5-180, the left/right band
StatedBand(dir) == IF dir[1] = 0 /\ dir[2] < 0 THEN 0 ELSE AngleBand(dir)

\* the offsets of the two neighbours of a band in a raster w wide
BandNeighbours(band, w) ==
  IF band = 0 THEN <<1, -1>>
  ELSE IF band = 1 THEN <<w - 1, 1 - w>>
  ELSE IF band = 2 THEN <<w, -w>>
  ELSE <<-w - 1, w + 1>>

\* pixel i is at least both of its neighbours in the band
IsLocalMax(magnitude, i, offsets) ==
  magnitude[i] >= magnitude[i + offsets[1]] /\ magnitude[i] >= magnitude[i + offsets[2]]

\* C21: for each interior pixel nonMaxSuppression outputs the pixel's own
\* magnitude when it is >= both neighbours in the band its direction selects,
\* and 0 otherwise; the output is never anything but 0 or the input magnitude.
C21_SurvivesIffBandMaximum ==
  Thinned =>
    \A i \in DOMAIN thinEdges :
      /\ thinEdges[i] \in {0, sobel.magnitude[i]}
      /\ Interior(i, canvas.width, canvas.height) =>
           thinEdges[i] =
             IF IsLocalMax(sobel.magnitude, i,
                           BandNeighbours(StatedBand(sobel.direction[i]), canvas.width))
             THEN sobel.magnitude[i] ELSE 0

\* perspectiveTransform has returned
Warped == output # NoOutput

\* floor(srcX) and floor(srcY) of destination pixel (x, y): the calls map the
\* output rectangle onto an axis-parallel rectangle whose corners are held in
\* 1/SubPx pixel, so srcX = (left + x * (right - left) / outputWidth) / SubPx
FloorSrcX(x) ==
  (warpCall.corners[1].x * warpCall.outputWidth
   + x * (warpCall.corners[2].x - warpCall.corners[1].x))
    \div (SubPx * warpCall.outputWidth)

FloorSrcY(y) ==
  (warpCall.corners[1].y * warpCall.outputHeight
   + y * (warpCall.corners[4].y - warpCall.corners[1].y))
    \div (SubPx * warpCall.outputHeight)

\* the 2x2 neighbourhood at (x0, y0) lies inside the source raster
NeighbourhoodInside(x0, y0) ==
  0 <= x0 /\ x0 + 1 < source.width /\ 0 <= y0 /\ y0 + 1 < source.height

\* the byte indices idx00, idx01, idx10, idx11 of channel c (0 to 3)
ReadIndices(x0, y0, c) ==
  {((y0 + dy) * source.width + x0 + dx) * 4 + c : dx \in 0..1, dy \in 0..1}

\* value is a blend of channel c of the four pixels at (x0, y0)
Interpolated(value, x0, y0, c) ==
  /\ \E dx \in 0..1, dy \in 0..1 :
       source.data[(y0 + dy) * source.width + x0 + dx][c] <= value
  /\ \E dx \in 0..1, dy \in 0..1 :
       source.data[(y0 + dy) * source.width + x0 + dx][c] >= value

WrittenOnlyInside(pixel, x0, y0) ==
  IF NeighbourhoodInside(x0, y0)
  THEN /\ \A c \in 0..3 : \A idx \in ReadIndices(x0, y0, c) :
            0 <= idx /\ idx < 4 * source.width * source.height
       /\ \A c \in 1..4 : Interpolated(pixel[c], x0, y0, c)
  ELSE pixel = <<0, 0, 0, 0>>

\* C22: a destination pixel is written with interpolated values only when the
\* 2x2 neighbourhood at (floor(srcX), floor(srcY)) lies inside the source;
\* otherwise its 4 channels stay 0; every index read lies inside the source buffer.
C22_WrittenOnlyInside ==
  Warped =>
    \A i \in DOMAIN output :
      WrittenOnlyInside(output[i], FloorSrcX(i % warpCall.outputWidth),
                        FloorSrcY(i \div warpCall.outputWidth))

\* a call that wrote one pixel and left alone one whose neighbourhood reaches
\* just past the last column of the source
C22_Witness ==
  /\ Warped
  /\ \E i \in DOMAIN output :
       /\ NeighbourhoodInside(FloorSrcX(i % warpCall.outputWidth),
                              FloorSrcY(i \div warpCall.outputWidth))
       /\ output[i][4] > 0
  /\ \E i \in DOMAIN output :
       /\ FloorSrcX(i % warpCall.outputWidth) = source.width - 1
       /\ FloorSrcY(i \div warpCall.outputWidth) \in 0..(source.height - 2)
       /\ output[i] = <<0, 0, 0, 0>>

\* approximatePolygon has returned
Approximated == Len(approximated) = 1

\* list is from[i], from[i+1], ... with some elements left out
RECURSIVE InOrderFrom(_, _, _, _)
InOrderFrom(list, k, from, i) ==
  IF k > Len(list) THEN TRUE
  ELSE IF i > Len(from) THEN FALSE
  ELSE IF list[k] = from[i] THEN InOrderFrom(list, k + 1, from, i + 1)
  ELSE InOrderFrom(list, k, from, i + 1)

\* C23: for a hull of 4 or more vertices approximatePolygon returns a non-empty
\* list that begins with hull[0], holds only hull vertices, in hull order, none
\* twice; a hull of fewer than 4 vertices is returned unchanged.
C23_SimplifiedKeepsHullOrder ==
  Approximated =>
    IF Len(approxHull) < 4 THEN approximated[1] = approxHull
    ELSE /\ Len(approximated[1]) >= 1
         /\ approximated[1][1] = approxHull[1]
         /\ InOrderFrom(approximated[1], 1, approxHull, 1)
         /\ NoRepeats(approximated[1])

\* a hull of 5 vertices of which some were kept and some collapsed away
C23_Witness ==
  /\ Approximated
  /\ Len(approxHull) = 5
  /\ Len(approximated[1]) \in 2..4
  /\ approximated[1][1] = approxHull[1]

\* pixel i lies in row 0, row height-1, column 0 or column width-1
OnBorder(i) == ~Interior(i, canvas.width, canvas.height)

\* a direction of 0 radians, held as the arguments <<gy, gx>> of atan2
ZeroDirection(dir) == dir[1] = 0 /\ dir[2] >= 0

\* C24: border pixels stay zero through the gradient stages: the magnitude and
\* direction buffers of sobelEdgeDetection and the buffer of nonMaxSuppression
\* are 0 at every pixel of row 0, row height-1, column 0 and column width-1.
C24_BorderStaysZero ==
  /\ Gradients =>
       \A i \in DOMAIN sobel.magnitude :
         OnBorder(i) => sobel.magnitude[i] = 0 /\ ZeroDirection(sobel.direction[i])
  /\ Thinned => \A i \in DOMAIN thinEdges : OnBorder(i) => thinEdges[i] = 0

\* a raster with an interior whose pixels next to the border carry gradient
C24_Witness ==
  /\ Thinned
  /\ \E i \in DOMAIN thinEdges :
       /\ Interior(i, canvas.width, canvas.height)
       /\ OnBorder(i - 1)
       /\ blurred[i] > 0 /\ blurred[i - 1] = 0
       /\ sobel.magnitude[i] > 0 /\ sobel.magnitude[i - 1] = 0
       /\ thinEdges[i] > 0 /\ thinEdges[i - 1] = 0

\* bestScore before Math.min(bestScore, 95), in units of 1/(2 * width * height)
UnclampedScore ==
  IF Len(bestOf(contours, canvas.width, canvas.height).quad) = 4
  THEN bestOf(contours, canvas.width, canvas.height).score
  ELSE 30 * 2 * canvas.width * canvas.height

\* the fraction confidence = <<n, d>> is exactly 30, or lies strictly between 10 and 95
FallbackOrOpenRange(confidence) ==
  \/ confidence[1] = 30 * confidence[2]
  \/ 10 * confidence[2] < confidence[1] /\ confidence[1] < 95 * confidence[2]

\* C28: the confidence findBestQuadrilateral returns is exactly 30 (fallback) or
\* a detected score strictly between 10 and 95, so min(score, 95) never changes
\* a value and the confidence is never exactly 95 nor at most 10.
C28_ConfidenceFallbackOrOpenRange ==
  Detected =>
    /\ FallbackOrOpenRange(detection.confidence)
    /\ detection.confidence = <<UnclampedScore, 2 * canvas.width * canvas.height>>
    /\ Len(bestOf(contours, canvas.width, canvas.height).quad) # 4
         => detection.confidence[1] = 30 * detection.confidence[2]

\* a detected quadrilateral returned with a confidence above 80, after a contour
\* of ratio 0.95 or more was rejected
C28_Witness ==
  /\ Detected
  /\ Len(contours) = 2
  /\ Len(PolygonOf(1)) = 4
  /\ 100 * Area2(PolygonOf(1)) >= 95 * 2 * canvas.width * canvas.height
  /\ Len(bestOf(contours, canvas.width, canvas.height).quad) = 4
  /\ detection.confidence[1] > 80 * detection.confidence[2]

\* ------------------------------------------------ properties of the Dashboard

\* C25: in every reachable state the main panel renders the upload zone, the
\* progress status, the failure panel or the result view; it is never empty
C25_PanelNeverEmpty ==
  ShowsUploadZone \/ ShowsProgress \/ ShowsFailure \/ ShowsResult

\* run r has ended, in the 'completed' or in the 'failed' state
Ended(r) == runs[r].at \in {"completed", "failed"}

\* C26: once a run of handleFileSelect has ended, the record it inserted with
\* status 'processing' has status 'completed' or 'failed'
C26_InsertedRecordSettled ==
  \A r \in 1..Len(runs) :
    Ended(r) /\ runs[r].inserted /\ IdOf(r) \in DOMAIN table
      => table[IdOf(r)].status \in {"completed", "failed"}

\* the document an image value belongs to: the one its run inserted, or the one
\* its signed URL was made for
OwnerOf(image) ==
  IF image.kind \in {"data", "processed"} THEN IdOf(image.of) ELSE image.of

\* C27: whenever the result view is shown, originalImageData, processedImageData
\* and currentDocument belong to the same document
C27_ResultViewOfOneDocument ==
  ShowsResult =>
    /\ OwnerOf(ui.originalImageData) = OwnerOf(ui.processedImageData)
    /\ ui.currentDocument # NoDocument
         => ui.currentDocument.id = OwnerOf(ui.originalImageData)

====
